---- MODULE Spec2Model ----
(***************************************************************************)
(* A model of gspace's request-resilience and event core:                  *)
(*   gspace/utils/rate_limiter.py   RateLimiter, RetryHandler,             *)
(*                                  APIRateLimiter                         *)
(*   gspace/auth/token_manager.py   FileTokenBackend,                      *)
(*                                  EncryptedTokenBackend, TokenManager    *)
(*   gspace/webhooks/webhook_handler.py   WebhookHandler                   *)
(*                                                                         *)
(* Time is counted in ticks of 0.1 s, the period of the polling sleep of   *)
(* acquire_token.  Every caller is a thread with a program counter; the    *)
(* steps of a thread are the statements of the method it is in, split      *)
(* where the method reads or writes the state of the object.               *)
(***************************************************************************)
EXTENDS Integers, Sequences, FiniteSets, TLC

VARIABLES
    config,          \* RateLimiter.config: requests_per_second, burst_limit, window_size
    tokens,          \* RateLimiter.tokens
    last_refill,     \* RateLimiter.last_refill
    window_start,    \* RateLimiter.window_start
    request_count,   \* RateLimiter.request_count
    now,             \* the wall clock, time.time()
    th,              \* the calling threads: thread -> its frame (pc and locals)
    refill_tokens,   \* history: tokens right after the last completed refill
    granted,         \* history: acquire_token calls that returned True since then
    retry_config,    \* RetryHandler.config
    backend,         \* TokenManager.backend: which TokenStorageBackend class
    password,        \* EncryptedTokenBackend.password
    files,           \* the files of storage_dir: user id -> content
    auto_refresh,    \* TokenManager.auto_refresh
    saved,           \* history: user id -> the record of its last save, while stored
    last_op,         \* history: the last call on the token store and its outcome
    verification_token,  \* WebhookHandler.verification_token
    event_handlers,      \* WebhookHandler.event_handlers
    fallback_handler,    \* WebhookHandler.fallback_handler
    wh,              \* the running handle_webhook call: its frame and outcome
    max_batch_size,  \* BatchRequestManager.max_batch_size
    requests,        \* BatchRequestManager.requests
    batch,           \* history: the last call on the batch manager and its outcome
    auth,            \* GSpace.auth: the arguments its AuthManager was built with
    services,        \* GSpace.services: service name -> instance
    instances,       \* the service instances constructed so far
    client,          \* history: the last call on the client and its outcome
    io,              \* the calls threads have under way on a token backend
    twin             \* a second RateLimiter of the same config, built at the same time

tm_vars == <<backend, password, files, auto_refresh, saved, last_op>>

wh_vars == <<verification_token, event_handlers, fallback_handler, wh>>

bt_vars == <<max_batch_size, requests, batch>>

cl_vars == <<auth, services, instances, client>>

\* the state of the batch manager and of the client
ext_vars == <<bt_vars, cl_vars, io, twin>>

\* the state a RateLimiter leaves alone
rest_vars == <<retry_config, tm_vars, wh_vars, ext_vars>>

rl_vars == <<config, tokens, last_refill, window_start, request_count, now,
             refill_tokens, granted, rest_vars>>

\* the state of the limiter and of its callers
limiter_vars == <<config, tokens, last_refill, window_start, request_count, th,
                  refill_tokens, granted, retry_config>>

vars == <<config, tokens, last_refill, window_start, request_count, now, th,
          refill_tokens, granted, retry_config, tm_vars, wh_vars, ext_vars>>

----------------------------------------------------------------------------
(* Bounds of the model *)

MaxTime == 16
MaxTimeConcurrent == 5
MaxRps == 2
MaxBurst == 3
MaxAge == 20

(* Units *)

TicksPerSecond == 10
SleepTicks == 1
NoTimeout == -1

Min(a, b) == IF a <= b THEN a ELSE b
Max(a, b) == IF a >= b THEN a ELSE b

WindowSizes == {5, 10}
Timeouts == {NoTimeout, 0, 2}

RateLimitConfigs ==
    { [requests_per_second |-> r, burst_limit |-> b, window_size |-> w] :
        r \in 1..MaxRps, b \in 1..MaxBurst, w \in WindowSizes }

ValidRateLimitConfigs ==
    { c \in RateLimitConfigs : c.burst_limit >= c.requests_per_second }

Threads == {"t1", "t2"}

\* what a method gave back: kind is "none" (still running), "bool", "float",
\* "stats", "value" (the work's result) or "raise"; val the boolean as 0/1, the
\* wait in ticks, or the number of the work call whose result or exception it is
NoReturn == [kind |-> "none", val |-> 0, err |-> "none"]
ReturnBool(b) == [kind |-> "bool", val |-> IF b THEN 1 ELSE 0, err |-> "none"]
ReturnFloat(x) == [kind |-> "float", val |-> x, err |-> "none"]
ReturnValue(call) == [kind |-> "value", val |-> call, err |-> "none"]
Raise(error, call) == [kind |-> "raise", val |-> call, err |-> error]

IdleFrame ==
    [op |-> "idle", pc |-> "idle", ra |-> "idle", timeout |-> NoTimeout,
     start_time |-> 0, l_now |-> 0, l_passed |-> 0, l_tmp |-> 0, wake |-> 0,
     ret |-> NoReturn, stats |-> <<>>,
     attempt |-> 0, last_exception |-> "None", log |-> <<>>]

----------------------------------------------------------------------------
\* the entries of a call's log
TokenEvent == [ev |-> "token", out |-> "", delay |-> 0]
CallEvent(outcome) == [ev |-> "call", out |-> outcome, delay |-> 0]
SleepEvent(d) == [ev |-> "sleep", out |-> "", delay |-> d]

Calls(log) == SelectSeq(log, LAMBDA x : x.ev = "call")
Sleeps(log) == SelectSeq(log, LAMBDA x : x.ev = "sleep")
TokensTaken(log) == Len(SelectSeq(log, LAMBDA x : x.ev = "token"))

----------------------------------------------------------------------------
(* The values the token store handles *)

MaxTimeTokens == 1

Users == {"u1", "u2"}
Passwords == {"pw1", "pw2"}

\* Python values: None, a str (an ISO date string carries its time and zone),
\* a list or a tuple of one str, an empty dict, a datetime
PyNone == [t |-> "None", s |-> "", n |-> 0, z |-> ""]
PyStr(x) == [t |-> "str", s |-> x, n |-> 0, z |-> ""]
PyList(x) == [t |-> "list", s |-> x, n |-> 0, z |-> ""]
PyTuple(x) == [t |-> "tuple", s |-> x, n |-> 0, z |-> ""]
PyDict == [t |-> "dict", s |-> "", n |-> 0, z |-> ""]
PyDatetime(time, zone) == [t |-> "datetime", s |-> "", n |-> time, z |-> zone]

\* bool(v) of these values
Truthy(v) ==
    CASE v.t = "None" -> FALSE
      [] v.t = "str" -> v.s # ""
      [] v.t = "dict" -> FALSE
      [] OTHER -> TRUE

\* datetime.isoformat()
IsoFormat(d) == [t |-> "str", s |-> "iso", n |-> d.n, z |-> d.z]

\* the outcome of an expression: a value, or an exception
Value(v) == [ok |-> TRUE, v |-> v, err |-> ""]
Throws(e) == [ok |-> FALSE, v |-> PyNone, err |-> e]

\* datetime.fromisoformat(v)
FromIsoFormat(v) ==
    IF v.t # "str" THEN Throws("TypeError")
    ELSE IF v.s # "iso" THEN Throws("ValueError")
    ELSE Value(PyDatetime(v.n, v.z))

\* JSON texts, as the tree json.dumps writes: string, null, array, object
JsonString(v) == [j |-> "string", s |-> v.s, n |-> v.n, z |-> v.z]
JsonNull == [j |-> "null", s |-> "", n |-> 0, z |-> ""]
JsonArray(x) == [j |-> "array", s |-> x, n |-> 0, z |-> ""]
JsonObject == [j |-> "object", s |-> "", n |-> 0, z |-> ""]
NotJson == [j |-> "TypeError", s |-> "", n |-> 0, z |-> ""]

\* json.dumps of a value: a tuple is written as an array, a datetime is not
\* JSON serializable
JsonEncodeValue(v) ==
    CASE v.t = "None" -> JsonNull
      [] v.t = "str" -> JsonString(v)
      [] v.t \in {"list", "tuple"} -> JsonArray(v.s)
      [] v.t = "dict" -> JsonObject
      [] OTHER -> NotJson

\* json.loads of a value
JsonDecodeValue(x) ==
    CASE x.j = "null" -> PyNone
      [] x.j = "string" -> [t |-> "str", s |-> x.s, n |-> x.n, z |-> x.z]
      [] x.j = "array" -> PyList(x.s)
      [] OTHER -> PyDict

\* the keys of the dict TokenManager.save_tokens builds
TokenKeys == {"access_token", "refresh_token", "expires_at", "created_at",
              "additional_data"}

JsonEncode(token_data) == [k \in TokenKeys |-> JsonEncodeValue(token_data[k])]
JsonDecode(doc) == [k \in TokenKeys |-> JsonDecodeValue(doc[k])]
Serializable(token_data) ==
    \A k \in TokenKeys : JsonEncodeValue(token_data[k]) # NotJson

TokenDict(access_token, refresh_token, expires_at, created_at, additional_data) ==
    [access_token |-> access_token, refresh_token |-> refresh_token,
     expires_at |-> expires_at, created_at |-> created_at,
     additional_data |-> additional_data]

NoDict == TokenDict(PyNone, PyNone, PyNone, PyNone, PyNone)

\* the dicts a caller hands to a backend's save_tokens directly: with a tuple
\* in it, with a datetime in it, with an expiry that is not a date, with an
\* empty access token, and one expired from the start without a refresh token
BackendDicts ==
    { TokenDict(PyStr("a1"), PyStr("r1"), PyNone, PyStr("c"), PyTuple("s")),
      TokenDict(PyStr("a1"), PyStr("r1"), PyDatetime(1, "naive"),
                PyStr("c"), PyDict),
      TokenDict(PyStr("a1"), PyNone, PyStr("soon"), PyStr("c"), PyList("s")),
      TokenDict(PyStr(""), PyStr("r1"), PyNone, PyStr("c"), PyDict),
      TokenDict(PyStr("a3"), PyNone, IsoFormat(PyDatetime(0, "naive")),
                PyStr("c"), PyDict) }

\* the arguments of TokenManager.save_tokens: access_token, refresh_token,
\* expires_at (None, or a naive or an aware datetime) and additional_data
SaveArguments ==
    { <<PyStr("a1"), PyStr("r1"), PyNone, PyNone>>,
      <<PyStr("a2"), PyStr("r2"), PyDatetime(1, "naive"), PyStr("s")>>,
      <<PyStr("a4"), PyNone, PyDatetime(1, "utc"), PyNone>> }

\* a file of storage_dir: a JSON text (FileTokenBackend) or a Fernet token
\* made with a key (EncryptedTokenBackend) over the JSON text; whole is false
\* for a text cut short and for a token that does not authenticate
NoFile == [fmt |-> "none", key |-> "", doc |-> JsonEncode(NoDict), whole |-> FALSE]
JsonFile(doc) == [fmt |-> "json", key |-> "", doc |-> doc, whole |-> TRUE]
CutFile == [fmt |-> "json", key |-> "", doc |-> JsonEncode(NoDict), whole |-> FALSE]

\* the key _generate_fernet derives from a password: PBKDF2 with a fixed salt
DeriveKey(pw) == pw

\* Fernet(key).encrypt(text)
FernetEncrypt(key, doc) == [fmt |-> "fernet", key |-> key, doc |-> doc, whole |-> TRUE]

\* Fernet(key).decrypt(token): the text, or InvalidToken
FernetDecrypt(key, file) == file.fmt = "fernet" /\ file.whole /\ file.key = key

\* the length of a JSON text, keys and punctuation between the values apart
TextLength(doc) ==
    LET length(x) == CASE x.j = "string" -> Len(x.s) + 2
                       [] x.j = "null" -> 4
                       [] x.j = "array" -> Len(x.s) + 4
                       [] OTHER -> 2
    IN length(doc["access_token"]) + length(doc["refresh_token"])
           + length(doc["expires_at"]) + length(doc["created_at"])
           + length(doc["additional_data"])

\* the length of a file: of the JSON text, or of the Fernet token, whose
\* ciphertext is the text padded to whole blocks of 16 bytes
FileLength(file) ==
    IF file.fmt = "none" \/ (~file.whole /\ file.doc = JsonEncode(NoDict)) THEN 0
    ELSE IF file.fmt = "fernet" THEN TextLength(file.doc) \div 16 + 1
    ELSE TextLength(file.doc)

\* the records two threads save for one user: a short and a long one
StoreRecords ==
    { TokenDict(PyStr("a1"), PyStr("r1"), PyNone, PyStr("c"), PyDict),
      TokenDict(PyStr("a2, a much longer access token"), PyStr("r2"), PyNone,
                PyStr("c"), PyDict) }

\* the frame of a call a thread has under way on the backend: dict is the
\* record a save writes, before the state of the file when the call started,
\* ret and got what a load returned
IdleStoreCall ==
    [op |-> "idle", pc |-> "idle", user |-> "", dict |-> NoDict,
     before |-> "absent", ret |-> "none", got |-> NoDict]

\* what a call on the token store gave back
NoOp == [op |-> "none", user |-> "", ret |-> "none", dict |-> NoDict,
         token |-> PyNone, file |-> "none", at |-> 0, n |-> 0]

\* no token manager, no webhook handler: the state of the parts not in use
NoTokenManager ==
    /\ backend = "none"
    /\ password = ""
    /\ files = [u \in Users |-> NoFile]
    /\ auto_refresh = TRUE
    /\ saved = [u \in Users |-> [valid |-> FALSE, dict |-> NoDict]]
    /\ last_op = NoOp
    /\ io = [t \in Threads |-> IdleStoreCall]

----------------------------------------------------------------------------
(* The values the webhook handler handles *)

MaxHandlers == 2

\* class WebhookEventType(Enum): the values of its members
WebhookEventType ==
    {"calendar.event.created", "calendar.event.updated",
     "calendar.event.deleted", "gmail.message.added", "gmail.message.deleted",
     "drive.file.created", "drive.file.updated", "drive.file.deleted",
     "sheets.spreadsheet.updated", "docs.document.updated"}

\* the event types the callers of the model register handlers for
RegisteredTypes == {"drive.file.created", "calendar.event.created"}

\* the callables registered: h1 and fb return, h2 raises an Exception, hr
\* registers itself for the type of the event it is called with
Handlers == {"h1", "h2"}
FallbackHandlers == {"fb", "h2"}
Behaviour(h) ==
    IF h = "h2" THEN "raises" ELSE IF h = "hr" THEN "registers" ELSE "returns"

\* request bodies: text is what json.loads makes of the body ("object",
\* "array", or "invalid" for a JSONDecodeError), event_type and timestamp
\* are the entries of the object, encodable is false for a str that
\* str.encode("utf-8") rejects (a lone surrogate)
Body(id, text, event_type, timestamp, encodable) ==
    [id |-> id, text |-> text, event_type |-> event_type,
     timestamp |-> timestamp, encodable |-> encodable]

Bodies ==
    { Body("b1", "object", "drive.file.created", "iso", TRUE),
      Body("b2", "object", "calendar.event.created", "not a date", TRUE),
      Body("b3", "object", "unknown.type", "iso", TRUE),
      Body("b4", "object", "", "iso", TRUE),
      Body("b5", "object", "drive.file.created", "a number", TRUE),
      Body("b6", "array", "", "", TRUE),
      Body("b7", "invalid", "", "", TRUE),
      Body("b8", "object", "drive.file.created", "iso", FALSE) }

\* a signature string: the digest of a body under a key, written in a form
Signature(key, body_id, form) == [key |-> key, body |-> body_id, form |-> form]

\* hmac.new(key, body, hashlib.sha256).hexdigest(): one digest for each key
\* and body, in lower-case hexadecimal digits
HmacSha256(key, body_id) == Signature(key, body_id, "hexdigest")
NoSignature == Signature("", "", "")

\* the forms of the signatures handed to verify_webhook: the hexdigest, the
\* same digits in upper case, with a "sha256=" prefix, with one digit
\* changed, cut after the first half, and with a character outside ASCII
SignatureForms ==
    {"hexdigest", "upper case", "prefixed", "digit changed", "cut", "not ascii"}

VerificationTokens == {"", "secret"}

\* request headers: not a dict at all, or a dict without X-Goog-Signature,
\* with an empty one, or with a digest
NoHeaders == [dict |-> FALSE, has |-> FALSE, sig |-> NoSignature]
HeadersWithout == [dict |-> TRUE, has |-> FALSE, sig |-> NoSignature]
HeadersWith(sig) == [dict |-> TRUE, has |-> TRUE, sig |-> sig]

HeadersOf(body) ==
    {NoHeaders, HeadersWithout, HeadersWith(NoSignature)}
        \cup {HeadersWith(HmacSha256(k, b)) :
                  k \in {"secret", "wrong"}, b \in {body.id, "b2"}}

\* the signatures handed to verify_webhook with a body: the digests of this
\* body and of another under the right and a wrong key, and the digest of
\* this body under the right key in every form
SignaturesOf(body) ==
    {NoSignature}
        \cup {HmacSha256(k, b) : k \in {"secret", "wrong"}, b \in {body.id, "b2"}}
        \cup {Signature("secret", body.id, f) : f \in SignatureForms}

\* the bodies handed to verify_webhook
VerifiedBodies == {b \in Bodies : b.id \in {"b1", "b2"}}

\* the response dicts: status is an int or a str
IntStatus(n) == [t |-> "int", n |-> n, s |-> ""]
StrStatus(x) == [t |-> "str", n |-> 0, s |-> x]
NoResponse == [status |-> StrStatus(""), error |-> "", event_processed |-> FALSE]
ErrorResponse(error, status) ==
    [status |-> IntStatus(status), error |-> error, event_processed |-> FALSE]
SuccessResponse ==
    [status |-> StrStatus("success"), error |-> "", event_processed |-> TRUE]

\* the frame of a handle_webhook call; handlers is the list the loop runs
\* over, i the position of the loop in it, invoked the handlers called so far;
\* live tells that event_handlers still holds that very list object, and
\* snapshot is what the list held when the loop started
IdleWebhook ==
    [op |-> "none", pc |-> "idle", body |-> "", headers |-> NoHeaders,
     verified |-> "None", parsed |-> FALSE,
     event_type |-> "None", handlers |-> <<>>, i |-> 0, invoked |-> <<>>,
     live |-> FALSE, snapshot |-> <<>>, ret |-> NoResponse]

\* no webhook handler in use
NoWebhookHandler ==
    /\ verification_token = ""
    /\ event_handlers = [T \in WebhookEventType |-> <<>>]
    /\ fallback_handler = "None"
    /\ wh = IdleWebhook

----------------------------------------------------------------------------
(* The values the batch manager handles *)

MaxBatchSize == 2

\* class BatchRequestType(Enum)
BatchRequestType == {"GET", "POST", "PUT", "DELETE", "PATCH"}

\* a BatchRequest: xid is the value of an X-Request-ID entry of its headers,
\* "" without one; body is None, an empty dict or a dict
BatchRequest(request_id, method, url, xid, body) ==
    [request_id |-> request_id, method |-> method, url |-> url, xid |-> xid,
     body |-> body]

\* the sub-requests the callers of the model add
SubRequests ==
    { BatchRequest("a", "GET", "/x", "", "None"),
      BatchRequest("b", "POST", "/y", "", "{'k': 'v'}"),
      BatchRequest("req_0", "GET", "/x", "", "None"),
      BatchRequest("req_1", "POST", "/y", "", "{'k': 'v'}"),
      BatchRequest("c", "PUT", "/y", "c", "{'k': 'v'}"),
      BatchRequest("a", "DELETE", "/x", "", "None"),
      BatchRequest("d", "PATCH", "/y", "", "{}") }

\* json.dumps(body) of a dict, and json.loads(text) of a text
JsonDumps(body) == IF body = "{'k': 'v'}" THEN "{\"k\": \"v\"}" ELSE "{}"
JsonLoads(text) ==
    CASE text = "{\"k\": \"v\"}" -> "{'k': 'v'}"
      [] text = "{}" -> "{}"
      [] OTHER -> text

\* one part of the payload: what create_batch_payload writes of a request
PayloadPart(request) ==
    [method |-> request.method, url |-> request.url, xid |-> request.xid,
     body_text |-> IF request.body \in {"None", "{}"} THEN ""
                   ELSE JsonDumps(request.body)]

\* one part of a response body: wellformed is false for a part without a
\* status line or without the empty line after its headers
ResponsePart(wellformed, status, xid, body_text) ==
    [wellformed |-> wellformed, status |-> status, xid |-> xid,
     body_text |-> body_text]

\* f"req_{n}"
SyntheticId(n) == <<"req_0", "req_1", "req_2", "req_3">>[n + 1]

\* a BatchResponse
BatchResponse(request_id, status_code, body, error) ==
    [request_id |-> request_id, status_code |-> status_code, body |-> body,
     error |-> error]

\* what a call on the batch manager gave back
NoBatchCall ==
    [op |-> "none", raised |-> "", before |-> <<>>, payload |-> <<>>,
     parts |-> <<>>, responses |-> <<>>]

\* no batch manager in use
NoBatchRequestManager ==
    /\ max_batch_size = 0
    /\ requests = <<>>
    /\ batch = NoBatchCall

----------------------------------------------------------------------------
(* The values the client handles *)

MaxInstances == 3

\* the services of the client, by the key they have in GSpace.services
ServiceNames == {"calendar", "gmail", "drive", "sheets", "docs"}

\* the accessors: calendar() and the like, calendar_async() and the like
AccessorKinds == {"sync", "async"}

\* no instance of a service
NoInstance == 0

\* AuthManager(credentials, scopes, auth_type): the arguments it was built with
AuthManager(credentials, scopes, auth_type) ==
    [credentials |-> credentials, scopes |-> scopes, auth_type |-> auth_type]

NoAuth == AuthManager("", "", "")

\* the parameters of GSpace.__init__ after self, in their order
InitParameters == <<"credentials", "auth_type", "scopes">>

\* a parameter no argument was bound to
Unbound == "<unbound>"

\* the defaults of GSpace.__init__: credentials has none
InitDefaults ==
    [credentials |-> Unbound, auth_type |-> "OAuth2", scopes |-> "None"]

\* the credentials, auth types and scopes callers pass
CredentialsFiles == {"credentials.json"}
AuthTypes == {"OAuth2", "service_account", "api_key"}
ScopeLists == {"None", "calendar, gmail"}

\* the auth types _validate_auth_type accepts
SupportedAuthTypes == {"service_account", "OAuth2"}

\* an entry of the dict GSpace.services, which keeps its keys in the order
\* of their insertion
ServiceEntry(name, instance) == [name |-> name, instance |-> instance]

\* list(self.services.keys())
Keys(svcs) == [i \in 1..Len(svcs) |-> svcs[i].name]

\* what a call on the client gave back: listed is the list returned by
\* get_available_services, instance the object returned by an accessor,
\* before and made the services and the number of instances at the start of
\* the call; accessed collects the names of the accessors that have returned
\* since the construction or the last close; credentials and scopes are the
\* arguments a constructing call was given and managers the number of
\* AuthManager(...) calls it made
NoClientCall ==
    [op |-> "none", name |-> "", raised |-> "", instance |-> NoInstance,
     listed |-> <<>>, before |-> <<>>, made |-> 0, auth |-> NoAuth,
     called |-> {}, accessed |-> {}, credentials |-> "", scopes |-> "",
     managers |-> 0]

\* no client in use
NoClient ==
    /\ auth = NoAuth
    /\ services = <<>>
    /\ instances = 0
    /\ client = NoClientCall

----------------------------------------------------------------------------
(* RateLimiter *)

\* no second limiter in use
NoTwin ==
    twin = [tokens |-> 0, last_refill |-> 0, window_start |-> 0,
            request_count |-> 0, acquired |-> FALSE, seen |-> 0]

\* int(time_passed * requests_per_second), time_passed in ticks
NewTokens(time_passed) ==
    (time_passed * config.requests_per_second) \div TicksPerSecond

\* the refill without its cap
RefilledTokensUncapped(cur, time_passed) ==
    cur + NewTokens(time_passed)

\* min(burst_limit, tokens + new_tokens)
RefilledTokens(cur, time_passed) ==
    Min(config.burst_limit, cur + NewTokens(time_passed))

\* a method ends: the frame keeps what it gave back and the log of the call
Return(t, value) ==
    th' = [th EXCEPT ![t] = [IdleFrame EXCEPT !.op = th[t].op, !.pc = "done",
                                              !.ret = value,
                                              !.stats = th[t].stats,
                                              !.log = th[t].log]]

\* the clock advances
TickUpTo(limit) ==
    /\ now < limit
    /\ now' = now + 1
    /\ UNCHANGED <<limiter_vars, tm_vars, wh_vars, ext_vars>>

Tick == TickUpTo(MaxTime)

TickConcurrent == TickUpTo(MaxTimeConcurrent)

\* acquire_token(timeout): start_time = time.time()
AcquireToken(t, timeout) ==
    /\ t \in DOMAIN th
    /\ th[t].pc \in {"idle", "done"}
    /\ th' = [th EXCEPT ![t] = [IdleFrame EXCEPT !.op = "acquire_token",
                                  !.pc = "refill", !.ra = "check",
                                  !.timeout = timeout, !.start_time = now]]
    /\ UNCHANGED rl_vars

\* get_wait_time(): self._refill_tokens() first
GetWaitTime(t) ==
    /\ t \in DOMAIN th
    /\ th[t].pc \in {"idle", "done"}
    /\ th' = [th EXCEPT ![t] = [IdleFrame EXCEPT !.op = "get_wait_time",
                                  !.pc = "refill", !.ra = "wait_check"]]
    /\ UNCHANGED rl_vars

\* get_stats(): self._refill_tokens() first
GetStats(t) ==
    /\ t \in DOMAIN th
    /\ th[t].pc \in {"idle", "done"}
    /\ th' = [th EXCEPT ![t] = [IdleFrame EXCEPT !.op = "get_stats",
                                  !.pc = "refill", !.ra = "stats_read"]]
    /\ UNCHANGED rl_vars

\* _refill_tokens: now = time.time(); time_passed = now - self.last_refill;
\* if time_passed >= self.config.window_size
RefillBegin(t) ==
    /\ t \in DOMAIN th
    /\ th[t].pc = "refill"
    /\ LET passed == now - last_refill IN
       th' = [th EXCEPT ![t].l_now = now, ![t].l_passed = passed,
                        ![t].pc = IF passed >= config.window_size
                                  THEN "refill_read" ELSE th[t].ra]
    /\ UNCHANGED rl_vars

\* the right-hand side of self.tokens = min(burst_limit, self.tokens + new_tokens)
RefillRead(t) ==
    /\ t \in DOMAIN th
    /\ th[t].pc = "refill_read"
    /\ th' = [th EXCEPT ![t].l_tmp = RefilledTokens(tokens, th[t].l_passed),
                        ![t].pc = "refill_write"]
    /\ UNCHANGED rl_vars

\* the store to self.tokens, and self.last_refill = now
RefillWrite(t) ==
    /\ t \in DOMAIN th
    /\ th[t].pc = "refill_write"
    /\ tokens' = th[t].l_tmp
    /\ last_refill' = th[t].l_now
    /\ refill_tokens' = th[t].l_tmp
    /\ granted' = 0
    /\ th' = [th EXCEPT ![t].pc = "refill_window"]
    /\ UNCHANGED <<config, window_start, request_count, now, rest_vars>>

\* if now - self.window_start >= window_size: window_start = now; request_count = 0
RefillWindow(t) ==
    /\ t \in DOMAIN th
    /\ th[t].pc = "refill_window"
    /\ IF th[t].l_now - window_start >= config.window_size
       THEN /\ window_start' = th[t].l_now
            /\ request_count' = 0
       ELSE UNCHANGED <<window_start, request_count>>
    /\ th' = [th EXCEPT ![t].pc = th[t].ra, ![t].l_tmp = 0, ![t].l_passed = 0,
                        ![t].l_now = 0]
    /\ UNCHANGED <<config, tokens, last_refill, now, refill_tokens, granted,
                   rest_vars>>

\* acquire_token: if self.tokens > 0
AcquireCheck(t) ==
    /\ t \in DOMAIN th
    /\ th[t].pc = "check"
    /\ th' = [th EXCEPT ![t].l_now = 0, ![t].l_passed = 0,
                        ![t].pc = IF tokens > 0 THEN "take_read" ELSE "timeout"]
    /\ UNCHANGED rl_vars

\* the right-hand side of self.tokens -= 1
TakeRead(t) ==
    /\ t \in DOMAIN th
    /\ th[t].pc = "take_read"
    /\ th' = [th EXCEPT ![t].l_tmp = tokens - 1, ![t].pc = "take_write"]
    /\ UNCHANGED rl_vars

\* wait_for_token: while not self.acquire_token(): time.sleep(0.1)
WaitForTokenDoneInverted(acquired) == ~acquired

WaitForTokenDone(acquired) == acquired

\* the methods of APIRateLimiter that start with self.rate_limiter.wait_for_token()
ExecuteMethods == {"execute", "execute_async"}

\* acquire_token gave `acquired` back to its caller: to the user of the
\* limiter, or to wait_for_token, called by APIRateLimiter.execute and
\* execute_async, which go on to execute_with_retry and execute_with_retry_async
\* (first attempt 1) once they hold a token
AcquireReturn(t, acquired, log) ==
    IF th[t].op \in ExecuteMethods
    THEN IF WaitForTokenDone(acquired)
         THEN th' = [th EXCEPT ![t] = [IdleFrame EXCEPT !.op = th[t].op,
                        !.pc = "retry_call", !.attempt = 1, !.log = log]]
         ELSE th' = [th EXCEPT ![t] = [IdleFrame EXCEPT !.op = th[t].op,
                        !.pc = "wait_sleep", !.wake = now + SleepTicks,
                        !.log = log]]
    ELSE Return(t, ReturnBool(acquired))

\* the store of self.tokens -= 1; self.request_count += 1; return True
TakeWrite(t) ==
    /\ t \in DOMAIN th
    /\ th[t].pc = "take_write"
    /\ tokens' = th[t].l_tmp
    /\ request_count' = request_count + 1
    /\ granted' = granted + 1
    /\ AcquireReturn(t, TRUE, IF th[t].op \in ExecuteMethods
                              THEN Append(th[t].log, TokenEvent)
                              ELSE th[t].log)
    /\ UNCHANGED <<config, last_refill, window_start, now, refill_tokens,
                   rest_vars>>

\* a timeout that has to be exceeded
TimedOutStrictly(timeout, start_time) ==
    timeout # NoTimeout /\ now - start_time > timeout

\* timeout is not None and (time.time() - start_time) >= timeout
TimedOut(timeout, start_time) ==
    timeout # NoTimeout /\ now - start_time >= timeout

\* if timeout is not None and (time.time() - start_time) >= timeout: return False
\* else time.sleep(0.1)
AcquireTimeout(t) ==
    /\ t \in DOMAIN th
    /\ th[t].pc = "timeout"
    /\ IF TimedOut(th[t].timeout, th[t].start_time)
       THEN AcquireReturn(t, FALSE, th[t].log)
       ELSE th' = [th EXCEPT ![t].pc = "sleep", ![t].wake = now + SleepTicks]
    /\ UNCHANGED rl_vars

\* time.sleep(0.1) returns: the loop of acquire_token starts over, or the
\* loop of wait_for_token calls acquire_token() again
AcquireWake(t) ==
    /\ t \in DOMAIN th
    /\ th[t].pc \in {"sleep", "wait_sleep"}
    /\ now >= th[t].wake
    /\ IF th[t].pc = "sleep"
       THEN th' = [th EXCEPT ![t].pc = "refill", ![t].wake = 0]
       ELSE th' = [th EXCEPT ![t].pc = "refill", ![t].ra = "check",
                             ![t].wake = 0, ![t].timeout = NoTimeout,
                             ![t].start_time = now]
    /\ UNCHANGED rl_vars

\* get_wait_time after the refill
WaitTime ==
    IF tokens > 0 THEN 0
    ELSE IF config.window_size - (now - last_refill) <= 0 THEN 0
    ELSE Max(0, TicksPerSecond \div config.requests_per_second)

GetWaitTimeReturn(t) ==
    /\ t \in DOMAIN th
    /\ th[t].pc = "wait_check"
    /\ Return(t, ReturnFloat(WaitTime))
    /\ UNCHANGED rl_vars

\* get_stats: the dict's entries read after the first refill; then
\* "wait_time": self.get_wait_time()
GetStatsRead(t) ==
    /\ t \in DOMAIN th
    /\ th[t].pc = "stats_read"
    /\ th' = [th EXCEPT ![t].stats = <<tokens, request_count>>,
                        ![t].pc = "refill", ![t].ra = "wait_check"]
    /\ UNCHANGED rl_vars

\* the statements of _refill_tokens
RefillStep ==
    \/ \E t \in Threads : RefillBegin(t)
    \/ \E t \in Threads : RefillRead(t)
    \/ \E t \in Threads : RefillWrite(t)
    \/ \E t \in Threads : RefillWindow(t)

\* the statements of acquire_token after the refill
AcquireStep ==
    \/ \E t \in Threads : AcquireCheck(t)
    \/ \E t \in Threads : TakeRead(t)
    \/ \E t \in Threads : TakeWrite(t)
    \/ \E t \in Threads : AcquireTimeout(t)
    \/ \E t \in Threads : AcquireWake(t)

----------------------------------------------------------------------------
(* RetryHandler *)

MaxRetries == 3

Strategies == {"exponential_backoff", "linear_backoff", "constant_backoff",
               "random_backoff"}

\* RetryConfig's default list of retryable status codes
DefaultRetryableErrors == {429, 500, 502, 503, 504}

\* delays are in ticks: 1.0 s and 60.0 s
DefaultBaseDelay == 10
DefaultMaxDelay == 600

DefaultRetryConfig ==
    [max_retries |-> 3, base_delay |-> DefaultBaseDelay,
     max_delay |-> DefaultMaxDelay, strategy |-> "exponential_backoff",
     jitter |-> TRUE, retryable_errors |-> DefaultRetryableErrors]

RetryConfigs ==
    { [max_retries |-> m, base_delay |-> DefaultBaseDelay, max_delay |-> x,
       strategy |-> s, jitter |-> j, retryable_errors |-> DefaultRetryableErrors] :
        m \in 0..MaxRetries, x \in {15, DefaultMaxDelay}, s \in Strategies,
        j \in BOOLEAN }

\* what one call of the work function does: it returns, or raises one of these
ErrorKinds == {"ConnectionError", "TimeoutError", "OSError", "HttpError429",
               "HttpError404", "ValueError", "KeyboardInterrupt"}

WorkErrors == {"ConnectionError", "HttpError429", "HttpError404", "ValueError",
               "KeyboardInterrupt"}

\* the classes an error is an instance of
ClassesOf(e) ==
    CASE e = "ConnectionError" ->
            {"ConnectionError", "OSError", "Exception", "BaseException"}
      [] e = "TimeoutError" ->
            {"TimeoutError", "OSError", "Exception", "BaseException"}
      [] e = "OSError" -> {"OSError", "Exception", "BaseException"}
      [] e \in {"HttpError429", "HttpError404"} ->
            {"HttpError", "Exception", "BaseException"}
      [] e = "ValueError" -> {"ValueError", "Exception", "BaseException"}
      [] OTHER -> {e, "BaseException"}

\* the status code an error carries, 0 for none
NoStatus == 0
StatusOf(e) ==
    CASE e = "HttpError429" -> 429
      [] e = "HttpError404" -> 404
      [] OTHER -> NoStatus

\* should_retry(error, status_code)
ShouldRetry(e, status_code) ==
    \/ status_code # NoStatus /\ status_code \in retry_config.retryable_errors
    \/ ClassesOf(e) \cap {"ConnectionError", "TimeoutError", "OSError",
                          "Exception"} # {}

RECURSIVE Pow2(_)
Pow2(n) == IF n <= 0 THEN 1 ELSE 2 * Pow2(n - 1)

\* random.uniform(0.8, 1.2) in hundredths, and random.uniform(0, x): the ends
JitterFactors == {80, 120}
UniformUpTo(x) == {0, x}

\* the delays without the cap of max_delay
CalculateDelayUncapped(attempt) ==
    LET base == retry_config.base_delay
        plain == CASE retry_config.strategy = "exponential_backoff" ->
                        {base * Pow2(attempt - 1)}
                   [] retry_config.strategy = "linear_backoff" -> {base * attempt}
                   [] retry_config.strategy = "constant_backoff" -> {base}
                   [] retry_config.strategy = "random_backoff" ->
                        UniformUpTo(base * Pow2(attempt - 1))
                   [] OTHER -> {base}
    IN IF retry_config.jitter
       THEN { (d * f) \div 100 : d \in plain, f \in JitterFactors }
       ELSE plain

\* _calculate_delay(attempt): the delays it can return
CalculateDelay(attempt) ==
    LET base == retry_config.base_delay
        plain == CASE retry_config.strategy = "exponential_backoff" ->
                        {base * Pow2(attempt - 1)}
                   [] retry_config.strategy = "linear_backoff" -> {base * attempt}
                   [] retry_config.strategy = "constant_backoff" -> {base}
                   [] retry_config.strategy = "random_backoff" ->
                        UniformUpTo(base * Pow2(attempt - 1))
                   [] OTHER -> {base}
        jittered == IF retry_config.jitter
                    THEN { (d * f) \div 100 : d \in plain, f \in JitterFactors }
                    ELSE plain
    IN { Min(d, retry_config.max_delay) : d \in jittered }

\* the last attempt of execute_with_retry: attempt > max_retries
LastAttemptOffByOne(attempt) == attempt >= retry_config.max_retries

LastAttempt(attempt) == attempt > retry_config.max_retries

\* execute_with_retry(func): last_exception = None; the first attempt is 1
ExecuteWithRetry(t) ==
    /\ t \in DOMAIN th
    /\ th[t].pc \in {"idle", "done"}
    /\ retry_config.max_retries + 2 > 1
    /\ th' = [th EXCEPT ![t] = [IdleFrame EXCEPT !.op = "execute_with_retry",
                                  !.pc = "retry_call", !.attempt = 1]]
    /\ UNCHANGED rl_vars

\* try: return func(...); except Exception as e: last_exception = e
RetryCall(t, outcome) ==
    /\ t \in DOMAIN th
    /\ th[t].pc = "retry_call"
    /\ LET log == Append(th[t].log, CallEvent(outcome))
           call == Len(Calls(log))
       IN IF outcome = "ok"
          THEN th' = [th EXCEPT ![t] = [IdleFrame EXCEPT !.op = th[t].op,
                         !.pc = "done", !.log = log, !.ret = ReturnValue(call)]]
          ELSE IF "Exception" \notin ClassesOf(outcome)
          THEN th' = [th EXCEPT ![t] = [IdleFrame EXCEPT !.op = th[t].op,
                         !.pc = "done", !.log = log,
                         !.ret = Raise(outcome, call)]]
          ELSE th' = [th EXCEPT ![t].log = log, ![t].last_exception = outcome,
                                ![t].pc = "retry_except"]
    /\ UNCHANGED rl_vars

\* a retry that goes on at once
NotSlept(log, delay) == log

\* time.sleep(delay) between a failed attempt and the next one
Slept(log, delay) == Append(log, SleepEvent(delay))

\* if attempt > max_retries or not self.should_retry(e): raise e
\* else delay = self._calculate_delay(attempt); time.sleep(delay)
RetryExcept(t) ==
    /\ t \in DOMAIN th
    /\ th[t].pc = "retry_except"
    /\ IF LastAttempt(th[t].attempt)
          \/ ~ShouldRetry(th[t].last_exception, NoStatus)
       THEN th' = [th EXCEPT ![t] = [IdleFrame EXCEPT !.op = th[t].op,
                      !.pc = "done", !.log = th[t].log,
                      !.ret = Raise(th[t].last_exception,
                                    Len(Calls(th[t].log)))]]
       ELSE \E d \in CalculateDelay(th[t].attempt) :
               th' = [th EXCEPT ![t].log = Slept(th[t].log, d),
                                ![t].pc = "retry_sleep"]
    /\ UNCHANGED rl_vars

\* time.sleep(delay) returns; the for loop goes on to the next attempt, or is
\* exhausted: raise last_exception
RetryNext(t) ==
    /\ t \in DOMAIN th
    /\ th[t].pc = "retry_sleep"
    /\ IF th[t].attempt + 1 < retry_config.max_retries + 2
       THEN th' = [th EXCEPT ![t].attempt = th[t].attempt + 1,
                             ![t].pc = "retry_call"]
       ELSE th' = [th EXCEPT ![t] = [IdleFrame EXCEPT !.op = th[t].op,
                      !.pc = "done", !.log = th[t].log,
                      !.ret = Raise(th[t].last_exception,
                                    Len(Calls(th[t].log)))]]
    /\ UNCHANGED rl_vars

RetryStep ==
    \/ \E t \in Threads, outcome \in {"ok"} \cup WorkErrors : RetryCall(t, outcome)
    \/ \E t \in Threads : RetryExcept(t)
    \/ \E t \in Threads : RetryNext(t)

\* RetryHandler.__init__
InitRetry ==
    /\ retry_config \in RetryConfigs
    /\ config = [requests_per_second |-> 10, burst_limit |-> 20,
                 window_size |-> 10]
    /\ tokens = config.burst_limit
    /\ last_refill = 0
    /\ window_start = 0
    /\ now = 0
    /\ request_count = 0
    /\ refill_tokens = config.burst_limit
    /\ granted = 0
    /\ th = [t \in {"t1"} |-> IdleFrame]
    /\ NoTokenManager
    /\ NoWebhookHandler
    /\ NoBatchRequestManager
    /\ NoClient
    /\ NoTwin

NextRetry ==
    \/ \E t \in Threads : ExecuteWithRetry(t)
    \/ RetryStep

SpecRetry == InitRetry /\ [][NextRetry]_vars

----------------------------------------------------------------------------
(* APIRateLimiter *)

MaxTimeExecute == 6

\* execute(func): self.rate_limiter.wait_for_token(), that is acquire_token()
Execute(t) ==
    /\ t \in DOMAIN th
    /\ th[t].pc \in {"idle", "done"}
    /\ th' = [th EXCEPT ![t] = [IdleFrame EXCEPT !.op = "execute",
                                  !.pc = "refill", !.ra = "check",
                                  !.timeout = NoTimeout, !.start_time = now]]
    /\ UNCHANGED rl_vars

TickExecute == TickUpTo(MaxTimeExecute)

ExecuteRateLimitConfigs ==
    { c \in ValidRateLimitConfigs : c.burst_limit <= 2 /\ c.window_size = 5 }

ExecuteRetryConfigs ==
    { c \in RetryConfigs : /\ c.strategy \in {"constant_backoff", "linear_backoff"}
                           /\ ~c.jitter
                           /\ c.max_delay = DefaultMaxDelay }

\* APIRateLimiter.__init__
InitExecute ==
    /\ config \in ExecuteRateLimitConfigs
    /\ retry_config \in ExecuteRetryConfigs
    /\ tokens = config.burst_limit
    /\ last_refill = 0
    /\ window_start = 0
    /\ now = 0
    /\ request_count = 0
    /\ refill_tokens = config.burst_limit
    /\ granted = 0
    /\ th = [t \in {"t1"} |-> IdleFrame]
    /\ NoTokenManager
    /\ NoWebhookHandler
    /\ NoBatchRequestManager
    /\ NoClient
    /\ NoTwin

NextExecute ==
    \/ TickExecute
    \/ \E t \in Threads : Execute(t)
    \/ RefillStep
    \/ AcquireStep
    \/ RetryStep

SpecExecute == InitExecute /\ [][NextExecute]_vars

----------------------------------------------------------------------------
(* APIRateLimiter.execute_async: tasks on one event loop.  The loop is one
   thread; the task it runs keeps it until the task awaits something that
   suspends it, returns or raises.  time.sleep does not give the loop back,
   await asyncio.sleep does. *)

MaxTimeLoop == 6

\* the coroutines of APIRateLimiter and RetryHandler
AsyncMethods == {"execute_async", "execute_with_retry_async"}

\* the task is not on the loop: not started, finished, or suspended in the
\* await asyncio.sleep(delay) of execute_with_retry_async; a plain call is
\* made on a thread of its own
Suspended(t) ==
    \/ th[t].pc \in {"idle", "done", "retry_sleep"}
    \/ th[t].op \notin AsyncMethods

\* the loop can run task t: no other task is on it
LoopFree(t) == \A o \in DOMAIN th \ {t} : Suspended(o)

\* execute_async(func): self.rate_limiter.wait_for_token(), a plain call
ExecuteAsync(t) ==
    /\ t \in DOMAIN th
    /\ LoopFree(t)
    /\ th[t].pc \in {"idle", "done"}
    /\ th' = [th EXCEPT ![t] = [IdleFrame EXCEPT !.op = "execute_async",
                                  !.pc = "refill", !.ra = "check",
                                  !.timeout = NoTimeout, !.start_time = now]]
    /\ UNCHANGED rl_vars

\* execute_with_retry_async(func): last_exception = None; the first attempt is 1
ExecuteWithRetryAsync(t) ==
    /\ t \in DOMAIN th
    /\ LoopFree(t)
    /\ th[t].pc \in {"idle", "done"}
    /\ retry_config.max_retries + 2 > 1
    /\ th' = [th EXCEPT ![t] = [IdleFrame EXCEPT !.op = "execute_with_retry_async",
                                  !.pc = "retry_call", !.attempt = 1]]
    /\ UNCHANGED rl_vars

\* the statements of wait_for_token and acquire_token, time.sleep(0.1)
\* included, run by the task that is on the loop
WaitForTokenOnLoop(t) ==
    /\ LoopFree(t)
    /\ \/ RefillBegin(t)
       \/ RefillRead(t)
       \/ RefillWrite(t)
       \/ RefillWindow(t)
       \/ AcquireCheck(t)
       \/ TakeRead(t)
       \/ TakeWrite(t)
       \/ AcquireTimeout(t)
       \/ AcquireWake(t)

\* try: return await func(...); except Exception as e: last_exception = e
RetryCallAsync(t, outcome) ==
    /\ LoopFree(t)
    /\ RetryCall(t, outcome)

\* a retry of the coroutine that goes on at once
NotAwaitedSleep(log, delay) == log

\* await asyncio.sleep(delay) between a failed attempt and the next one
AwaitedSleep(log, delay) == Append(log, SleepEvent(delay))

\* if attempt > max_retries or not self.should_retry(e): raise e
\* else delay = self._calculate_delay(attempt); await asyncio.sleep(delay):
\* the task leaves the loop until the delay is over
RetryExceptAsync(t) ==
    /\ t \in DOMAIN th
    /\ LoopFree(t)
    /\ th[t].pc = "retry_except"
    /\ IF LastAttempt(th[t].attempt)
          \/ ~ShouldRetry(th[t].last_exception, NoStatus)
       THEN th' = [th EXCEPT ![t] = [IdleFrame EXCEPT !.op = th[t].op,
                      !.pc = "done", !.log = th[t].log,
                      !.ret = Raise(th[t].last_exception,
                                    Len(Calls(th[t].log)))]]
       ELSE \E d \in CalculateDelay(th[t].attempt) :
               th' = [th EXCEPT ![t].log = AwaitedSleep(th[t].log, d),
                                ![t].pc = "retry_sleep",
                                ![t].wake = now + d]
    /\ UNCHANGED rl_vars

\* the delay of asyncio.sleep is over: the task can go on
Ready(t) == th[t].pc = "retry_sleep" /\ now >= th[t].wake

\* the loop resumes a task whose asyncio.sleep is over
Resume(t) ==
    /\ t \in DOMAIN th
    /\ LoopFree(t)
    /\ Ready(t)
    /\ RetryNext(t)

TickLoop == TickUpTo(MaxTimeLoop)

LoopRateLimitConfigs ==
    { c \in ValidRateLimitConfigs : c.burst_limit = 1 /\ c.window_size = 5 }

LoopRetryConfigs ==
    { c \in RetryConfigs : /\ c.strategy = "random_backoff"
                           /\ c.max_retries <= 1
                           /\ ~c.jitter
                           /\ c.max_delay = DefaultMaxDelay }

\* APIRateLimiter.__init__, and two tasks created on the loop
InitLoop ==
    /\ config \in LoopRateLimitConfigs
    /\ retry_config \in LoopRetryConfigs
    /\ tokens = config.burst_limit
    /\ last_refill = 0
    /\ window_start = 0
    /\ now = 0
    /\ request_count = 0
    /\ refill_tokens = config.burst_limit
    /\ granted = 0
    /\ th = [t \in Threads |-> IdleFrame]
    /\ NoTokenManager
    /\ NoWebhookHandler
    /\ NoBatchRequestManager
    /\ NoClient
    /\ NoTwin

NextLoop ==
    \/ TickLoop
    \/ \E t \in Threads : ExecuteAsync(t)
    \/ \E t \in Threads : ExecuteWithRetryAsync(t)
    \/ \E t \in Threads : WaitForTokenOnLoop(t)
    \/ \E t \in Threads, outcome \in {"ok", "ConnectionError"} :
          RetryCallAsync(t, outcome)
    \/ \E t \in Threads : RetryExceptAsync(t)
    \/ \E t \in Threads : Resume(t)

SpecLoop == InitLoop /\ [][NextLoop]_vars

----------------------------------------------------------------------------
(* execute_with_retry called on a thread and execute_with_retry_async run as
   a task, over one RetryConfig: t1 makes the plain call, t2 is the task.
   Each gets its own sequence of work outcomes. *)

MaxTimeBoth == 30

TickBoth == TickUpTo(MaxTimeBoth)

BothRetryConfigs ==
    { c \in RetryConfigs : /\ c.strategy # "random_backoff"
                           /\ c.max_retries <= 2
                           /\ ~c.jitter }

BothOutcomes == {"ok", "ConnectionError", "KeyboardInterrupt"}

\* RetryHandler.__init__
InitBoth ==
    /\ retry_config \in BothRetryConfigs
    /\ config = [requests_per_second |-> 10, burst_limit |-> 20,
                 window_size |-> 10]
    /\ tokens = config.burst_limit
    /\ last_refill = 0
    /\ window_start = 0
    /\ now = 0
    /\ request_count = 0
    /\ refill_tokens = config.burst_limit
    /\ granted = 0
    /\ th = [t \in Threads |-> IdleFrame]
    /\ NoTwin
    /\ NoTokenManager
    /\ NoWebhookHandler
    /\ NoBatchRequestManager
    /\ NoClient

NextBoth ==
    \/ TickBoth
    \/ ExecuteWithRetry("t1")
    \/ \E outcome \in BothOutcomes : RetryCall("t1", outcome)
    \/ RetryExcept("t1")
    \/ RetryNext("t1")
    \/ ExecuteWithRetryAsync("t2")
    \/ \E outcome \in BothOutcomes : RetryCallAsync("t2", outcome)
    \/ RetryExceptAsync("t2")
    \/ Resume("t2")

SpecBoth == InitBoth /\ [][NextBoth]_vars

----------------------------------------------------------------------------
(* FileTokenBackend, EncryptedTokenBackend, TokenManager *)

TokenClock == TickUpTo(MaxTimeTokens)

\* the file open(file_path, "a") would leave
WrittenFileAppended(old, new) ==
    IF old.fmt = "none" THEN new ELSE [new EXCEPT !.whole = FALSE]

\* the file open(file_path, "w") / open(file_path, "wb") and the write leave
WrittenFile(old, new) == new

\* save_tokens of the backend: the file it leaves, and whether it returns True
BackendSave(u, token_data) ==
    IF backend = "file"
    THEN IF Serializable(token_data)
         THEN [file |-> WrittenFile(files[u], JsonFile(JsonEncode(token_data))),
               ok |-> TRUE]
         ELSE [file |-> CutFile, ok |-> FALSE]
    ELSE IF Serializable(token_data)
         THEN [file |-> WrittenFile(files[u],
                           FernetEncrypt(DeriveKey(password), JsonEncode(token_data))),
               ok |-> TRUE]
         ELSE [file |-> files[u], ok |-> FALSE]

\* whether the backend's load_tokens gets a dict out of the file of u
Readable(u) ==
    IF backend = "file"
    THEN files[u].fmt = "json" /\ files[u].whole
    ELSE FernetDecrypt(DeriveKey(password), files[u])

\* the file of u as load_tokens finds it
FileState(u) ==
    IF files[u].fmt = "none" THEN "absent"
    ELSE IF Readable(u) THEN "ok" ELSE "corrupt"

\* load_tokens of the backend, and TokenManager.load_tokens over it: None when
\* the file does not exist, and None when reading it raised
BackendLoad(u) ==
    IF files[u].fmt = "none" THEN [ret |-> "None", dict |-> NoDict]
    ELSE IF Readable(u) THEN [ret |-> "dict", dict |-> JsonDecode(files[u].doc)]
    ELSE [ret |-> "None", dict |-> NoDict]

\* the record of the last save of u stays the stored one until the file of u
\* is written, deleted or tampered with, or the password changes
Remember(u, file, ok, token_data) ==
    IF ok THEN [saved EXCEPT ![u] = [valid |-> TRUE, dict |-> token_data]]
    ELSE IF file = files[u] THEN saved
    ELSE [saved EXCEPT ![u] = [valid |-> FALSE, dict |-> NoDict]]

Forget(u) == [saved EXCEPT ![u] = [valid |-> FALSE, dict |-> NoDict]]

\* FileTokenBackend.save_tokens / EncryptedTokenBackend.save_tokens
BackendSaveTokens(u, token_data) ==
    /\ backend # "none"
    /\ LET r == BackendSave(u, token_data) IN
       /\ files' = [files EXCEPT ![u] = r.file]
       /\ saved' = Remember(u, r.file, r.ok, token_data)
       /\ last_op' = [NoOp EXCEPT !.op = "backend.save_tokens", !.user = u,
                        !.ret = IF r.ok THEN "True" ELSE "False",
                        !.dict = token_data, !.file = FileState(u), !.at = now]
    /\ UNCHANGED <<backend, password, auto_refresh, now, limiter_vars, wh_vars, ext_vars>>

\* TokenManager.save_tokens(user_id, access_token, refresh_token, expires_at,
\* additional_data)
SaveTokens(u, access_token, refresh_token, expires_at, additional_data) ==
    /\ backend # "none"
    /\ LET token_data == TokenDict(access_token, refresh_token,
                               IF Truthy(expires_at) THEN IsoFormat(expires_at)
                                                     ELSE PyNone,
                               IsoFormat(PyDatetime(now, "naive")),
                               IF Truthy(additional_data) THEN additional_data
                                                          ELSE PyDict)
           r == BackendSave(u, token_data)
       IN /\ files' = [files EXCEPT ![u] = r.file]
          /\ saved' = Remember(u, r.file, r.ok, token_data)
          /\ last_op' = [NoOp EXCEPT !.op = "save_tokens", !.user = u,
                           !.ret = IF r.ok THEN "True" ELSE "False",
                           !.dict = token_data, !.file = FileState(u), !.at = now]
    /\ UNCHANGED <<backend, password, auto_refresh, now, limiter_vars, wh_vars, ext_vars>>

\* load_tokens(user_id) of the backend and of the TokenManager
LoadTokens(u) ==
    /\ backend # "none"
    /\ LET r == BackendLoad(u) IN
       last_op' = [NoOp EXCEPT !.op = "load_tokens", !.user = u, !.ret = r.ret,
                     !.dict = r.dict, !.file = FileState(u), !.at = now]
    /\ UNCHANGED <<backend, password, files, auto_refresh, saved, now,
                   limiter_vars, wh_vars, ext_vars>>

\* _refresh_tokens(user_id): the refresh itself is not implemented, every
\* path returns None
RefreshTokens(u) ==
    LET r == BackendLoad(u) IN
    IF r.ret = "None" THEN PyNone
    ELSE IF ~Truthy(r.dict.refresh_token) THEN PyNone
    ELSE PyNone

\* datetime.utcnow() > expires_at
ExpiredAtStrictly(utcnow, expires_at) == utcnow > expires_at

\* datetime.utcnow() >= expires_at
ExpiredAt(utcnow, expires_at) == utcnow >= expires_at

\* get_valid_access_token(user_id): the value returned; every exception is
\* caught and gives None
ValidAccessToken(u) ==
    LET r == BackendLoad(u)
        access_token == r.dict.access_token
        expires_at_str == r.dict.expires_at
        expires_at == FromIsoFormat(expires_at_str)
    IN IF r.ret = "None" THEN PyNone
       ELSE IF ~Truthy(access_token) THEN PyNone
       ELSE IF Truthy(expires_at_str)
            THEN IF ~expires_at.ok THEN PyNone
                 ELSE IF expires_at.v.z # "naive" THEN PyNone
                 ELSE IF ExpiredAt(now, expires_at.v.n)
                      THEN IF auto_refresh THEN RefreshTokens(u) ELSE PyNone
                      ELSE access_token
            ELSE access_token

GetValidAccessToken(u) ==
    /\ backend # "none"
    /\ LET r == BackendLoad(u)
           token == ValidAccessToken(u)
       IN last_op' = [NoOp EXCEPT !.op = "get_valid_access_token", !.user = u,
                        !.ret = IF token = PyNone THEN "None" ELSE "token",
                        !.token = token, !.dict = r.dict,
                        !.file = FileState(u), !.at = now]
    /\ UNCHANGED <<backend, password, files, auto_refresh, saved, now,
                   limiter_vars, wh_vars, ext_vars>>

\* a delete_tokens that returns True and leaves the file where it is
DeleteTokensKeepingFile(u, unlink_raises) == [file |-> files[u], ok |-> TRUE]

\* delete_tokens(user_id) of the backend: if file_path.exists():
\* file_path.unlink(); return True, and False when the unlink raised (the
\* directory is not writable, the path is a directory)
DeleteTokens(u, unlink_raises) ==
    IF files[u].fmt = "none" THEN [file |-> files[u], ok |-> TRUE]
    ELSE IF unlink_raises THEN [file |-> files[u], ok |-> FALSE]
    ELSE [file |-> NoFile, ok |-> TRUE]

\* cleaned_count += 1 after each self.revoke_tokens(user_id)
CountRevoked(cleaned, locked) == Cardinality(cleaned)

\* TokenManager.revoke_tokens(user_id): success = self.backend.delete_tokens(user_id);
\* return success
RevokeTokens(u, unlink_raises) ==
    /\ backend # "none"
    /\ LET r == DeleteTokens(u, unlink_raises) IN
       /\ files' = [files EXCEPT ![u] = r.file]
       /\ saved' = IF r.ok THEN Forget(u) ELSE saved
       /\ last_op' = [NoOp EXCEPT !.op = "revoke_tokens", !.user = u,
                        !.ret = IF r.ok THEN "True" ELSE "False",
                        !.file = FileState(u), !.at = now]
    /\ UNCHANGED <<backend, password, auto_refresh, now, limiter_vars, wh_vars, ext_vars>>

\* list_users(): the stems of the files of storage_dir
ListUsers == { u \in Users : files[u].fmt # "none" }

\* is_token_valid(user_id): get_valid_access_token(user_id) is not None
IsTokenValid(u) == ValidAccessToken(u) # PyNone

\* cleanup_expired_tokens(): for user_id in users: if not
\* self.is_token_valid(user_id): self.revoke_tokens(user_id); cleaned_count += 1.
\* locked are the users whose file cannot be unlinked
CleanupExpiredTokens(locked) ==
    /\ backend # "none"
    /\ LET cleaned == { u \in ListUsers : ~IsTokenValid(u) } IN
       /\ files' = [u \in Users |->
                      IF u \in cleaned THEN DeleteTokens(u, u \in locked).file
                      ELSE files[u]]
       /\ saved' = [u \in Users |->
                      IF u \in cleaned /\ DeleteTokens(u, u \in locked).ok
                      THEN [valid |-> FALSE, dict |-> NoDict]
                      ELSE saved[u]]
       /\ last_op' = [NoOp EXCEPT !.op = "cleanup_expired_tokens",
                        !.ret = "int", !.n = CountRevoked(cleaned, locked),
                        !.at = now]
    /\ UNCHANGED <<backend, password, auto_refresh, now, limiter_vars, wh_vars,
                   ext_vars>>

\* the file of a user is cut short or a byte of it is changed, outside the
\* program
Tamper(u) ==
    /\ backend # "none"
    /\ files[u].fmt # "none"
    /\ files[u].whole
    /\ files' = [files EXCEPT ![u] = [@ EXCEPT !.whole = FALSE,
                                               !.doc = JsonEncode(NoDict)]]
    /\ saved' = Forget(u)
    /\ last_op' = NoOp
    /\ UNCHANGED <<backend, password, auto_refresh, now, limiter_vars, wh_vars, ext_vars>>

\* EncryptedTokenBackend(storage_dir, password) again, over the same
\* directory with another password
Reopen(pw) ==
    /\ backend = "encrypted"
    /\ pw # password
    /\ password' = pw
    /\ saved' = [u \in Users |-> [valid |-> FALSE, dict |-> NoDict]]
    /\ last_op' = NoOp
    /\ UNCHANGED <<backend, files, auto_refresh, now, limiter_vars, wh_vars, ext_vars>>

\* no rate limiter in use: one as constructed by default
NoRateLimiter ==
    /\ now = 0
    /\ config = [requests_per_second |-> 10, burst_limit |-> 20,
                 window_size |-> 10]
    /\ tokens = config.burst_limit
    /\ last_refill = 0
    /\ window_start = 0
    /\ request_count = 0
    /\ refill_tokens = config.burst_limit
    /\ granted = 0
    /\ th = [t \in {"t1"} |-> IdleFrame]
    /\ retry_config = DefaultRetryConfig
    /\ NoTwin

\* TokenManager.__init__ over a new FileTokenBackend or EncryptedTokenBackend
InitTokens ==
    /\ backend \in {"file", "encrypted"}
    /\ password = IF backend = "encrypted" THEN "pw1" ELSE ""
    /\ auto_refresh \in BOOLEAN
    /\ files = [u \in Users |-> NoFile]
    /\ saved = [u \in Users |-> [valid |-> FALSE, dict |-> NoDict]]
    /\ last_op = NoOp
    /\ io = [t \in Threads |-> IdleStoreCall]
    /\ NoRateLimiter
    /\ NoWebhookHandler
    /\ NoBatchRequestManager
    /\ NoClient

NextTokens ==
    \/ TokenClock
    \/ \E u \in Users, d \in BackendDicts : BackendSaveTokens(u, d)
    \/ \E u \in Users, a \in SaveArguments : SaveTokens(u, a[1], a[2], a[3], a[4])
    \/ \E u \in Users : LoadTokens(u)
    \/ \E u \in Users : GetValidAccessToken(u)
    \/ \E u \in Users, unlink_raises \in BOOLEAN : RevokeTokens(u, unlink_raises)
    \/ \E locked \in SUBSET Users : CleanupExpiredTokens(locked)
    \/ \E u \in Users : Tamper(u)
    \/ \E pw \in Passwords : Reopen(pw)

SpecTokens == InitTokens /\ [][NextTokens]_vars

----------------------------------------------------------------------------
(* Two threads on one token backend.  The backends hold no lock and write
   the file of a user in place: the threads' opens, writes and reads
   interleave. *)

\* the file open(file_path, "w") / open(file_path, "wb") leaves before
\* anything is written: it exists and is empty
Truncated ==
    [fmt |-> IF backend = "file" THEN "json" ELSE "fernet", key |-> "",
     doc |-> JsonEncode(NoDict), whole |-> FALSE]

\* the file after the bytes of new went over it from offset 0, by a writer
\* whose open came before the bytes of old: what old has beyond the length
\* of new stays
Overwritten(old, new) ==
    IF FileLength(old) <= FileLength(new) THEN new
    ELSE [old EXCEPT !.whole = FALSE]

\* save_tokens(user_id, tokens) of a backend, first half: the text (and the
\* Fernet token) is made and open(file_path, "w") truncates the file
SaveOpen(t, u, token_data) ==
    /\ backend # "none"
    /\ io[t].pc \in {"idle", "done"}
    /\ io' = [io EXCEPT ![t] = [IdleStoreCall EXCEPT
                                   !.op = "save_tokens", !.pc = "opened",
                                   !.user = u, !.dict = token_data,
                                   !.before = FileState(u)]]
    /\ files' = [files EXCEPT ![u] = Truncated]
    /\ UNCHANGED <<backend, password, auto_refresh, saved, last_op, now,
                   limiter_vars, wh_vars, bt_vars, cl_vars, twin>>

\* save_tokens, second half: the buffered text reaches the file when the
\* with block closes it, and the call returns True
SaveWrite(t) ==
    /\ io[t].pc = "opened"
    /\ LET u == io[t].user
           text == JsonEncode(io[t].dict)
           new == IF backend = "file" THEN JsonFile(text)
                  ELSE FernetEncrypt(DeriveKey(password), text)
       IN files' = [files EXCEPT ![u] = Overwritten(@, new)]
    /\ io' = [io EXCEPT ![t].pc = "done", ![t].ret = "True"]
    /\ UNCHANGED <<backend, password, auto_refresh, saved, last_op, now,
                   limiter_vars, wh_vars, bt_vars, cl_vars, twin>>

\* load_tokens(user_id) of a backend, first half: if not file_path.exists():
\* return None
LoadExists(t, u) ==
    /\ backend # "none"
    /\ io[t].pc \in {"idle", "done"}
    /\ LET call == [IdleStoreCall EXCEPT !.op = "load_tokens", !.user = u,
                                         !.before = FileState(u)]
       IN io' = [io EXCEPT ![t] =
                    IF files[u].fmt = "none"
                    THEN [call EXCEPT !.pc = "done", !.ret = "None"]
                    ELSE [call EXCEPT !.pc = "exists"]]
    /\ UNCHANGED <<backend, password, files, auto_refresh, saved, last_op, now,
                   limiter_vars, wh_vars, bt_vars, cl_vars, twin>>

\* load_tokens, second half: the file is read and parsed; None when that
\* raised
LoadRead(t) ==
    /\ io[t].pc = "exists"
    /\ LET r == BackendLoad(io[t].user)
       IN io' = [io EXCEPT ![t].pc = "done", ![t].ret = r.ret, ![t].got = r.dict]
    /\ UNCHANGED <<backend, password, files, auto_refresh, saved, last_op, now,
                   limiter_vars, wh_vars, bt_vars, cl_vars, twin>>

NextStore ==
    \/ \E t \in Threads, d \in StoreRecords : SaveOpen(t, "u1", d)
    \/ \E t \in Threads : SaveWrite(t)
    \/ \E t \in Threads : LoadExists(t, "u1")
    \/ \E t \in Threads : LoadRead(t)

\* a FileTokenBackend or an EncryptedTokenBackend over an empty directory
SpecStore == InitTokens /\ [][NextStore]_vars

----------------------------------------------------------------------------
(* WebhookHandler *)

\* register_handler(event_type, handler); a type without handlers has no
\* key in event_handlers, here the empty list
RegisterHandler(T, handler) ==
    /\ wh.pc \in {"idle", "done"}
    /\ Len(event_handlers[T]) < MaxHandlers
    /\ event_handlers' = [event_handlers EXCEPT ![T] = Append(@, handler)]
    /\ wh' = IdleWebhook
    /\ UNCHANGED <<verification_token, fallback_handler, now, limiter_vars, tm_vars, ext_vars>>

\* register_fallback_handler(handler)
RegisterFallbackHandler(handler) ==
    /\ wh.pc \in {"idle", "done"}
    /\ fallback_handler' = handler
    /\ wh' = IdleWebhook
    /\ UNCHANGED <<verification_token, event_handlers, now, limiter_vars, tm_vars, ext_vars>>

\* clear_handlers(event_type)
ClearHandlers(T) ==
    /\ wh.pc \in {"idle", "done"}
    /\ event_handlers' = [event_handlers EXCEPT ![T] = <<>>]
    /\ wh' = IdleWebhook
    /\ UNCHANGED <<verification_token, fallback_handler, now, limiter_vars, tm_vars, ext_vars>>

\* clear_handlers()
ClearAllHandlers ==
    /\ wh.pc \in {"idle", "done"}
    /\ event_handlers' = [T \in WebhookEventType |-> <<>>]
    /\ wh' = IdleWebhook
    /\ UNCHANGED <<verification_token, fallback_handler, now, limiter_vars, tm_vars, ext_vars>>

\* a verification that looks at the key of the signature only
VerifyWebhookAnyBody(body, signature) ==
    IF verification_token = "" THEN TRUE
    ELSE signature.key = verification_token /\ signature.form = "hexdigest"

\* verify_webhook(request_body, signature)
VerifyWebhook(body, signature) ==
    IF verification_token = "" THEN TRUE
    ELSE IF signature.form = "not ascii" THEN FALSE
    ELSE HmacSha256(verification_token, body.id) = signature

\* a call of verify_webhook(request_body, signature) by the application
VerifyWebhookCall(body, signature) ==
    /\ wh.pc \in {"idle", "done"}
    /\ wh' = [IdleWebhook EXCEPT
                 !.op = "verify_webhook", !.pc = "done", !.body = body.id,
                 !.headers = HeadersWith(signature),
                 !.verified = IF VerifyWebhook(body, signature) THEN "True"
                                                                ELSE "False"]
    /\ UNCHANGED <<verification_token, event_handlers, fallback_handler, now,
                   limiter_vars, tm_vars, ext_vars>>

\* parse_webhook(request_body, headers): no event when json.loads fails, when
\* the document is not an object, when the timestamp is not a str; an event
\* without a type when event_type is not the value of a member
ParseWebhook(body) ==
    IF body.text # "object" THEN [ok |-> FALSE, event_type |-> "None"]
    ELSE IF body.timestamp = "a number" THEN [ok |-> FALSE, event_type |-> "None"]
    ELSE IF body.event_type \in WebhookEventType
         THEN [ok |-> TRUE, event_type |-> body.event_type]
         ELSE [ok |-> TRUE, event_type |-> "None"]

\* where handle_webhook sends an event of the type
Route(event_type) ==
    IF event_type # "None" /\ Len(event_handlers[event_type]) > 0 THEN "handlers"
    ELSE IF fallback_handler # "None" THEN "fallback"
    ELSE "return"

\* what handle_webhook knows of a request it lets through: verify_webhook
\* returned True for it, or was not called
Verified(headers) ==
    IF headers.has /\ headers.sig # NoSignature THEN "True" ELSE "None"

WebhookReturns(response) ==
    wh' = [wh EXCEPT !.pc = "done", !.ret = response]

\* handle_webhook(request_body, headers) up to the routing of the event
HandleWebhook(body, headers) ==
    /\ wh.pc \in {"idle", "done"}
    /\ LET call == [IdleWebhook EXCEPT !.op = "handle_webhook",
                                       !.body = body.id, !.headers = headers]
           event == ParseWebhook(body)
       IN IF ~headers.dict
          THEN wh' = [call EXCEPT !.pc = "done",
                                  !.ret = ErrorResponse("AttributeError", 500)]
          ELSE IF headers.has /\ headers.sig # NoSignature /\ ~body.encodable
          THEN wh' = [call EXCEPT !.pc = "done",
                                  !.ret = ErrorResponse("UnicodeEncodeError", 500)]
          ELSE IF /\ headers.has /\ headers.sig # NoSignature
                  /\ ~VerifyWebhook(body, headers.sig)
          THEN wh' = [call EXCEPT !.pc = "done", !.verified = "False",
                                  !.ret = ErrorResponse("Invalid signature", 401)]
          ELSE IF ~event.ok
          THEN wh' = [call EXCEPT !.pc = "done", !.verified = Verified(headers),
                                  !.ret = ErrorResponse("Failed to parse webhook", 400)]
          ELSE wh' = [call EXCEPT !.pc = Route(event.event_type),
                                  !.verified = Verified(headers),
                                  !.parsed = TRUE,
                                  !.event_type = event.event_type,
                                  !.handlers =
                                      IF Route(event.event_type) = "handlers"
                                      THEN event_handlers[event.event_type]
                                      ELSE <<>>,
                                  !.live = Route(event.event_type) = "handlers",
                                  !.snapshot =
                                      IF Route(event.event_type) = "handlers"
                                      THEN event_handlers[event.event_type]
                                      ELSE <<>>,
                                  !.i = 1]
    /\ UNCHANGED <<verification_token, event_handlers, fallback_handler, now,
                   limiter_vars, tm_vars, ext_vars>>

\* the loop leaves at the first handler that raises
NextHandlerOrStop(i, n, outcome) == IF outcome = "raises" THEN n + 1 ELSE i + 1

\* the position of the loop after handler i of n returned or raised an
\* Exception: the try is inside the loop
NextHandler(i, n, outcome) == i + 1

\* for handler in self.event_handlers[event.event_type]: one handler(event)
DispatchHandler ==
    /\ wh.pc = "handlers"
    /\ wh.i <= Len(wh.handlers)
    /\ Behaviour(wh.handlers[wh.i]) # "registers"
    /\ LET handler == wh.handlers[wh.i] IN
       wh' = [wh EXCEPT !.invoked = Append(@, [handler |-> handler,
                                               as |-> "handler",
                                               outcome |-> Behaviour(handler)]),
                        !.i = NextHandler(wh.i, Len(wh.handlers),
                                          Behaviour(handler))]
    /\ UNCHANGED <<verification_token, event_handlers, fallback_handler, now,
                   limiter_vars, tm_vars, ext_vars>>

\* self.fallback_handler(event)
DispatchFallback ==
    /\ wh.pc = "fallback"
    /\ wh' = [wh EXCEPT !.invoked = Append(@, [handler |-> fallback_handler,
                                               as |-> "fallback",
                                               outcome |-> Behaviour(fallback_handler)]),
                        !.pc = "return"]
    /\ UNCHANGED <<verification_token, event_handlers, fallback_handler, now,
                   limiter_vars, tm_vars, ext_vars>>

\* a response that reports the handlers that raised
ResponseAfterFailures(invoked) ==
    IF \E i \in 1..Len(invoked) : invoked[i].outcome = "raises"
    THEN ErrorResponse("handler failed", 500)
    ELSE SuccessResponse

\* the response after the dispatch, whatever the handlers did
ResponseAfter(invoked) == SuccessResponse

\* return {"status": "success", "event_processed": True}
HandleWebhookReturn ==
    /\ \/ wh.pc = "return"
       \/ wh.pc = "handlers" /\ wh.i > Len(wh.handlers)
    /\ WebhookReturns(ResponseAfter(wh.invoked))
    /\ UNCHANGED <<verification_token, event_handlers, fallback_handler, now,
                   limiter_vars, tm_vars, ext_vars>>

\* WebhookHandler(verification_token)
InitWebhook ==
    /\ verification_token \in VerificationTokens
    /\ event_handlers = [T \in WebhookEventType |-> <<>>]
    /\ fallback_handler = "None"
    /\ wh = IdleWebhook
    /\ NoRateLimiter
    /\ NoTokenManager
    /\ NoBatchRequestManager
    /\ NoClient

NextWebhook ==
    \/ \E T \in RegisteredTypes, h \in Handlers : RegisterHandler(T, h)
    \/ \E h \in FallbackHandlers : RegisterFallbackHandler(h)
    \/ \E T \in RegisteredTypes : ClearHandlers(T)
    \/ ClearAllHandlers
    \/ \E b \in Bodies : \E hd \in HeadersOf(b) : HandleWebhook(b, hd)
    \/ \E b \in VerifiedBodies : \E sig \in SignaturesOf(b) : VerifyWebhookCall(b, sig)
    \/ DispatchHandler
    \/ DispatchFallback
    \/ HandleWebhookReturn

SpecWebhook == InitWebhook /\ [][NextWebhook]_vars

----------------------------------------------------------------------------
(* WebhookHandler with its registry changed while handle_webhook dispatches *)

\* the list the loop of the running handle_webhook iterates after
\* register_handler(T, handler): self.event_handlers[T].append(handler) is
\* seen by the loop when T is the type of the event and the dict still
\* holds the list the loop took
AppendedUnderLoop(T, handler) ==
    IF T = wh.event_type /\ wh.live THEN Append(wh.handlers, handler)
    ELSE wh.handlers

\* register_handler(T, handler) by another thread between two handlers of
\* the loop
RegisterWhileDispatching(T, handler) ==
    /\ wh.pc = "handlers"
    /\ Len(event_handlers[T]) < MaxHandlers
    /\ event_handlers' = [event_handlers EXCEPT ![T] = Append(@, handler)]
    /\ wh' = [wh EXCEPT !.handlers = AppendedUnderLoop(T, handler)]
    /\ UNCHANGED <<verification_token, fallback_handler, now, limiter_vars,
                   tm_vars, ext_vars>>

\* clear_handlers(T), and clear_handlers() for T = "None", by another thread
\* between two handlers of the loop: del self.event_handlers[T] and
\* self.event_handlers.clear() take the list out of the dict and leave the
\* list itself, which the loop goes on iterating, as it is
ClearWhileDispatching(T) ==
    /\ wh.pc = "handlers"
    /\ event_handlers' = [U \in WebhookEventType |->
                              IF T \in {U, "None"} THEN <<>>
                              ELSE event_handlers[U]]
    /\ wh' = [wh EXCEPT !.live = @ /\ T \notin {wh.event_type, "None"}]
    /\ UNCHANGED <<verification_token, fallback_handler, now, limiter_vars,
                   tm_vars, ext_vars>>

\* one handler(event) of the loop for a handler that itself calls
\* register_handler(event.event_type, handler)
DispatchRegistering ==
    /\ wh.pc = "handlers"
    /\ wh.i <= Len(wh.handlers)
    /\ Behaviour(wh.handlers[wh.i]) = "registers"
    /\ Len(event_handlers[wh.event_type]) < MaxHandlers
    /\ LET handler == wh.handlers[wh.i] IN
       /\ event_handlers' = [event_handlers EXCEPT
                                 ![wh.event_type] = Append(@, handler)]
       /\ wh' = [wh EXCEPT !.invoked = Append(@, [handler |-> handler,
                                                  as |-> "handler",
                                                  outcome |-> "registers"]),
                           !.handlers = AppendedUnderLoop(wh.event_type, handler),
                           !.i = NextHandler(wh.i, Len(wh.handlers), "registers")]
    /\ UNCHANGED <<verification_token, fallback_handler, now, limiter_vars,
                   tm_vars, ext_vars>>

NextDispatch ==
    \/ \E T \in RegisteredTypes, h \in {"h1", "hr"} : RegisterHandler(T, h)
    \/ \E b \in VerifiedBodies : HandleWebhook(b, HeadersWithout)
    \/ \E T \in RegisteredTypes, h \in {"h1", "hr"} :
           RegisterWhileDispatching(T, h)
    \/ \E T \in RegisteredTypes \cup {"None"} : ClearWhileDispatching(T)
    \/ DispatchHandler
    \/ DispatchRegistering
    \/ HandleWebhookReturn

SpecDispatch == InitWebhook /\ [][NextDispatch]_vars

----------------------------------------------------------------------------
(* BatchRequestManager *)

BatchCall(op) == [NoBatchCall EXCEPT !.op = op, !.before = requests]

\* add_request(request), also through add_get_request, add_post_request,
\* add_put_request, add_delete_request and add_patch_request
AddRequest(request) ==
    /\ requests' = IF Len(requests) >= max_batch_size THEN requests
                   ELSE Append(requests, request)
    /\ batch' = BatchCall("add_request")
    /\ UNCHANGED <<max_batch_size, now, limiter_vars, tm_vars, wh_vars, cl_vars, io, twin>>

\* clear_requests()
ClearRequests ==
    /\ requests' = <<>>
    /\ batch' = BatchCall("clear_requests")
    /\ UNCHANGED <<max_batch_size, now, limiter_vars, tm_vars, wh_vars, cl_vars, io, twin>>

\* a payload for a batch without requests
BatchPayloadOfAny(reqs) ==
    [raised |-> "", parts |-> [i \in 1..Len(reqs) |-> PayloadPart(reqs[i])]]

\* create_batch_payload(): one part for each request, in order, and the
\* closing boundary; ValueError without requests
BatchPayload(reqs) ==
    IF Len(reqs) = 0 THEN [raised |-> "ValueError", parts |-> <<>>]
    ELSE [raised |-> "", parts |-> [i \in 1..Len(reqs) |-> PayloadPart(reqs[i])]]

CreateBatchPayload ==
    /\ batch' = [BatchCall("create_batch_payload") EXCEPT
                    !.raised = BatchPayload(requests).raised,
                    !.payload = BatchPayload(requests).parts]
    /\ UNCHANGED <<max_batch_size, requests, now, limiter_vars, tm_vars,
                   wh_vars, cl_vars, io, twin>>

\* a server that answers each part of a payload with 200, the headers and
\* the body of the part
EchoServer(parts) ==
    [i \in 1..Len(parts) |->
         ResponsePart(TRUE, 200, parts[i].xid, parts[i].body_text)]

\* parse_batch_response: the loop over the parts of the response body
RECURSIVE ParseParts(_, _)
ParseParts(parts, responses) ==
    IF parts = <<>> THEN responses
    ELSE LET part == Head(parts) IN
         IF ~part.wellformed THEN ParseParts(Tail(parts), responses)
         ELSE ParseParts(Tail(parts),
                  Append(responses,
                         BatchResponse(
                             IF part.xid # "" THEN part.xid
                             ELSE SyntheticId(Len(responses)),
                             part.status,
                             IF part.body_text = "" THEN "None"
                             ELSE JsonLoads(part.body_text),
                             IF part.status >= 400 THEN "error" ELSE "None")))

\* parse_batch_response(response_body)
ParseBatchResponse(parts) == ParseParts(parts, <<>>)

\* the payload of the last create_batch_payload is sent to the echo server
\* and its answer is parsed
ParseEchoedResponse ==
    /\ batch.op = "create_batch_payload"
    /\ batch.raised = ""
    /\ batch' = [BatchCall("parse_batch_response") EXCEPT
                    !.payload = batch.payload,
                    !.responses = ParseBatchResponse(EchoServer(batch.payload))]
    /\ UNCHANGED <<max_batch_size, requests, now, limiter_vars, tm_vars,
                   wh_vars, cl_vars, io, twin>>

\* the parts of the model not in use
NoCore ==
    /\ NoRateLimiter
    /\ NoTokenManager
    /\ NoWebhookHandler

\* BatchRequestManager(max_batch_size)
InitBatch ==
    /\ max_batch_size \in 0..MaxBatchSize
    /\ requests = <<>>
    /\ batch = NoBatchCall
    /\ NoCore
    /\ NoClient

NextBatch ==
    \/ \E r \in SubRequests : AddRequest(r)
    \/ ClearRequests
    \/ CreateBatchPayload
    \/ ParseEchoedResponse

SpecBatch == InitBatch /\ [][NextBatch]_vars

\* get_request_count()
GetRequestCount == Len(requests)

\* a batch that is full only above its maximum
IsFullAbove == Len(requests) > max_batch_size

\* is_full()
IsFull == Len(requests) >= max_batch_size

\* get_remaining_capacity(): max(0, max_batch_size - len(requests))
GetRemainingCapacity ==
    IF max_batch_size - Len(requests) > 0 THEN max_batch_size - Len(requests)
    ELSE 0

\* BatchRequestManager(max_batch_size) for any int: the constructor stores
\* the argument as it is
InitCapacity ==
    /\ max_batch_size \in -1..MaxBatchSize
    /\ requests = <<>>
    /\ batch = NoBatchCall
    /\ NoCore
    /\ NoClient

NextCapacity ==
    \/ \E r \in SubRequests : AddRequest(r)
    \/ ClearRequests

SpecCapacity == InitCapacity /\ [][NextCapacity]_vars

\* the parts a server can answer one part of a payload with: with or
\* without the status line and the empty line, with or without an
\* X-Request-ID header
ResponseParts ==
    { ResponsePart(w, 200, xid, "") : w \in BOOLEAN, xid \in {"", "x"} }

\* the answers of a server to a payload: one part for each part
ServerAnswers(payload) == [1..Len(payload) -> ResponseParts]

\* parse_batch_response(response_body) on the answer of a server to the
\* payload of the last create_batch_payload
ParseResponseBody(parts) ==
    /\ batch.op = "create_batch_payload"
    /\ batch.raised = ""
    /\ batch' = [BatchCall("parse_batch_response") EXCEPT
                    !.payload = batch.payload,
                    !.parts = parts,
                    !.responses = ParseBatchResponse(parts)]
    /\ UNCHANGED <<max_batch_size, requests, now, limiter_vars, tm_vars,
                   wh_vars, cl_vars, io, twin>>

NextParse ==
    \/ \E r \in SubRequests : AddRequest(r)
    \/ ClearRequests
    \/ CreateBatchPayload
    \/ \E parts \in ServerAnswers(batch.payload) : ParseResponseBody(parts)

SpecParse == InitBatch /\ [][NextParse]_vars

----------------------------------------------------------------------------
(* GSpace *)

ClientCall(op) ==
    [NoClientCall EXCEPT !.op = op, !.before = services, !.made = instances,
                         !.auth = auth, !.called = client.called,
                         !.accessed = client.accessed]

\* a test that never finds the service
NeverLoaded(svcs, name) == FALSE

\* name in self.services
Loaded(svcs, name) == \E i \in 1..Len(svcs) : svcs[i].name = name

\* self.services[name]
InstanceOf(svcs, name) ==
    (CHOOSE e \in {svcs[i] : i \in 1..Len(svcs)} : e.name = name).instance

\* self.services[name] = instance: a new key goes last, a key the dict has
\* keeps its place
Stored(svcs, name, instance) ==
    IF \E i \in 1..Len(svcs) : svcs[i].name = name
    THEN [i \in 1..Len(svcs) |-> IF svcs[i].name = name
                                 THEN ServiceEntry(name, instance) ELSE svcs[i]]
    ELSE Append(svcs, ServiceEntry(name, instance))

\* calendar(), gmail(), drive(), sheets(), docs() and their _async forms:
\* if name not in self.services: self.services[name] = Service(self.auth);
\* return self.services[name].  The constructor of the service raises when
\* auth.build_service fails.
Accessor(name, kind, built) ==
    /\ auth # NoAuth
    /\ LET call == [ClientCall(IF kind = "sync" THEN "accessor"
                                                ELSE "accessor_async")
                        EXCEPT !.name = name, !.called = @ \cup {name}]
       IN IF Loaded(services, name)
          THEN /\ built
               /\ client' = [call EXCEPT
                                !.instance = InstanceOf(services, name),
                                !.accessed = @ \cup {name}]
               /\ UNCHANGED <<services, instances>>
          ELSE /\ instances < MaxInstances
               /\ IF built
                  THEN /\ instances' = instances + 1
                       /\ services' = Stored(services, name, instances + 1)
                       /\ client' = [call EXCEPT !.instance = instances + 1,
                                                 !.accessed = @ \cup {name}]
                  ELSE /\ client' = [call EXCEPT !.raised = "GoogleAuthError"]
                       /\ UNCHANGED <<services, instances>>
    /\ UNCHANGED <<auth, now, limiter_vars, tm_vars, wh_vars, bt_vars, io, twin>>

\* get_available_services()
GetAvailableServices ==
    /\ auth # NoAuth
    /\ client' = [ClientCall("get_available_services") EXCEPT
                     !.listed = Keys(services)]
    /\ UNCHANGED <<auth, services, instances, now, limiter_vars, tm_vars,
                   wh_vars, bt_vars, io, twin>>

\* a close that keeps the services
NotCleared(svcs) == svcs

\* self.services.clear()
Cleared(svcs) == <<>>

\* close(), close_async() and __aexit__, which awaits close_async()
Close(kind) ==
    /\ auth # NoAuth
    /\ services' = Cleared(services)
    /\ client' = [ClientCall(IF kind = "sync" THEN "close" ELSE "close_async")
                     EXCEPT !.called = {}, !.accessed = {}]
    /\ UNCHANGED <<auth, instances, now, limiter_vars, tm_vars, wh_vars, bt_vars, io, twin>>

\* a call of cls with positional and keyword arguments binds them to the
\* parameters of __init__ as Python does: the positional ones in order, then
\* the keyword ones by name; a parameter given twice, an argument too many
\* or a parameter left without value is a TypeError
Bind(positional, keyword) ==
    LET given(p) == \E i \in 1..Len(positional) : InitParameters[i] = p
        value(p) ==
            IF given(p)
            THEN positional[CHOOSE i \in 1..Len(positional) : InitParameters[i] = p]
            ELSE IF p \in DOMAIN keyword THEN keyword[p] ELSE InitDefaults[p]
    IN IF \/ Len(positional) > Len(InitParameters)
          \/ \E i \in 1..Len(positional) : InitParameters[i] \in DOMAIN keyword
          \/ value("credentials") = Unbound
       THEN [raised |-> "TypeError", credentials |-> "", auth_type |-> "",
             scopes |-> ""]
       ELSE [raised |-> "", credentials |-> value("credentials"),
             auth_type |-> value("auth_type"), scopes |-> value("scopes")]

\* self.auth_type in ["service_account", "OAuth2"]
Supported(auth_type) == auth_type \in SupportedAuthTypes

\* GSpace.__init__ called with the arguments positional and keyword, through
\* op: the arguments are bound, _validate_auth_type raises ValueError for an
\* unsupported auth type, then AuthManager(credentials, scopes, auth_type) is
\* built, which raises when it cannot load the credentials, and services is
\* the empty dict.  No client exists when a call raises.
GSpaceInit(op, credentials, scopes, positional, keyword, loaded) ==
    /\ auth = NoAuth
    /\ LET bound == Bind(positional, keyword)
           call == [NoClientCall EXCEPT !.op = op, !.made = instances,
                                        !.credentials = credentials,
                                        !.scopes = scopes]
       IN IF bound.raised # ""
          THEN /\ loaded
               /\ client' = [call EXCEPT !.raised = bound.raised]
               /\ UNCHANGED <<auth, services>>
          ELSE IF ~Supported(bound.auth_type)
          THEN /\ loaded
               /\ client' = [call EXCEPT !.raised = "ValueError"]
               /\ UNCHANGED <<auth, services>>
          ELSE IF ~loaded
          THEN /\ client' = [call EXCEPT !.raised = "FileNotFoundError",
                                         !.managers = 1]
               /\ UNCHANGED <<auth, services>>
          ELSE /\ auth' = AuthManager(bound.credentials, bound.scopes,
                                      bound.auth_type)
               /\ services' = <<>>
               /\ client' = [call EXCEPT !.managers = 1]
    /\ UNCHANGED <<instances, now, limiter_vars, tm_vars, wh_vars, bt_vars, io, twin>>

\* GSpace(credentials), GSpace(credentials, auth_type) and
\* GSpace(credentials, auth_type, scopes)
New(credentials, auth_type, scopes, given, loaded) ==
    GSpaceInit("GSpace", credentials, IF given = 3 THEN scopes ELSE "None",
               SubSeq(<<credentials, auth_type, scopes>>, 1, given), <<>>,
               loaded)

\* GSpace(credentials, auth_type=auth_type, scopes=scopes)
NewByKeyword(credentials, auth_type, scopes, loaded) ==
    GSpaceInit("GSpace", credentials, scopes, <<credentials>>,
               [auth_type |-> auth_type, scopes |-> scopes], loaded)

\* GSpace.from_oauth(credentials_file, scopes):
\* return cls(credentials_file, scopes, auth_type="OAuth2")
FromOauth(credentials_file, scopes, loaded) ==
    GSpaceInit("from_oauth", credentials_file, scopes,
               <<credentials_file, scopes>>, [auth_type |-> "OAuth2"], loaded)

\* GSpace.from_service_account(service_account_file, scopes):
\* return cls(service_account_file, scopes, auth_type="service_account")
FromServiceAccount(service_account_file, scopes, loaded) ==
    GSpaceInit("from_service_account", service_account_file, scopes,
               <<service_account_file, scopes>>,
               [auth_type |-> "service_account"], loaded)

\* no GSpace client has been constructed
InitClient ==
    /\ NoClient
    /\ NoCore
    /\ NoBatchRequestManager

NextClient ==
    \/ \E c \in CredentialsFiles, a \in AuthTypes, s \in ScopeLists,
          given \in 1..3, loaded \in BOOLEAN : New(c, a, s, given, loaded)
    \/ \E c \in CredentialsFiles, a \in AuthTypes, s \in ScopeLists,
          loaded \in BOOLEAN : NewByKeyword(c, a, s, loaded)
    \/ \E c \in CredentialsFiles, s \in ScopeLists, loaded \in BOOLEAN :
           FromOauth(c, s, loaded)
    \/ \E c \in CredentialsFiles, s \in ScopeLists, loaded \in BOOLEAN :
           FromServiceAccount(c, s, loaded)
    \/ \E n \in ServiceNames, k \in AccessorKinds, built \in BOOLEAN :
           Accessor(n, k, built)
    \/ GetAvailableServices
    \/ \E k \in AccessorKinds : Close(k)

SpecClient == InitClient /\ [][NextClient]_vars

----------------------------------------------------------------------------
(* One caller of a RateLimiter *)

\* RateLimiter.__init__: tokens = burst_limit; last_refill and window_start are
\* two readings of the clock
Init ==
    /\ config \in ValidRateLimitConfigs
    /\ tokens = config.burst_limit
    /\ last_refill = 0
    /\ window_start \in {0, 1}
    /\ now = window_start
    /\ request_count = 0
    /\ refill_tokens = config.burst_limit
    /\ granted = 0
    /\ th = [t \in {"t1"} |-> IdleFrame]
    /\ retry_config = DefaultRetryConfig
    /\ NoTokenManager
    /\ NoWebhookHandler
    /\ NoBatchRequestManager
    /\ NoClient
    /\ NoTwin

Next ==
    \/ Tick
    \/ \E t \in Threads, timeout \in Timeouts : AcquireToken(t, timeout)
    \/ \E t \in Threads : GetWaitTime(t)
    \/ \E t \in Threads : GetStats(t)
    \/ RefillStep
    \/ AcquireStep
    \/ \E t \in Threads : GetWaitTimeReturn(t)
    \/ \E t \in Threads : GetStatsRead(t)

Spec == Init /\ [][Next]_vars

----------------------------------------------------------------------------
(* One caller that waits for its tokens, over unbounded time.  The code uses
   the readings of time.time() only in differences (now - self.last_refill,
   now - self.window_start, the end of a sleep), so the passing of time is
   kept as the ageing of the readings the limiter and its caller hold while
   the clock stays where it is: a wait that never ends is then a cycle of
   states.  Time passes while the caller sleeps or is outside the limiter:
   its statements take no time on the scale of the 0.1 s tick.  MaxAge
   bounds the age of a reading: a sleep ends before the readings get older. *)

\* a reading of the clock held in a frame, one tick later: the end of the
\* sleep the frame is in
Aged(frame) ==
    [frame EXCEPT
        !.wake = IF frame.pc \in {"sleep", "wait_sleep"} THEN @ - 1 ELSE @]

\* 0.1 s of wall-clock time passes
Elapse ==
    /\ \A t \in DOMAIN th : th[t].pc \in {"idle", "done", "sleep", "wait_sleep"}
    /\ now - last_refill < MaxAge
    /\ now - window_start < MaxAge
    /\ last_refill' = last_refill - 1
    /\ window_start' = window_start - 1
    /\ th' = [t \in DOMAIN th |-> Aged(th[t])]
    /\ UNCHANGED <<config, tokens, request_count, now, refill_tokens, granted,
                   rest_vars>>

\* acquire_token() with timeout=None, which is all wait_for_token does:
\* its loop never sees False
NextWait ==
    \/ Elapse
    \/ \E t \in Threads : AcquireToken(t, NoTimeout)
    \/ RefillStep
    \/ AcquireStep

\* the thread of the caller runs, and time passes
SpecWait ==
    /\ Init
    /\ [][NextWait]_vars
    /\ WF_vars(RefillStep)
    /\ WF_vars(AcquireStep)
    /\ WF_vars(Elapse)

----------------------------------------------------------------------------
(* One caller and two RateLimiter objects of the same config, built at the
   same time.  The caller makes each acquire_token(timeout=0) and each
   get_wait_time() on both, and get_stats() on the first only: the second is
   the first as it would be with the get_stats calls left out.  The calls
   are made one after the other and take no time on the scale of the tick. *)

MaxTimeObserved == 10

\* the fields of the first limiter
Bucket ==
    [tokens |-> tokens, last_refill |-> last_refill,
     window_start |-> window_start, request_count |-> request_count]

\* the fields of the second
TwinBucket ==
    [tokens |-> twin.tokens, last_refill |-> twin.last_refill,
     window_start |-> twin.window_start, request_count |-> twin.request_count]

\* _refill_tokens() on a limiter whose fields are b
Refilled(b) ==
    LET time_passed == now - b.last_refill IN
    IF time_passed >= config.window_size
    THEN [tokens |-> RefilledTokens(b.tokens, time_passed),
          last_refill |-> now,
          window_start |-> IF now - b.window_start >= config.window_size
                           THEN now ELSE b.window_start,
          request_count |-> IF now - b.window_start >= config.window_size
                            THEN 0 ELSE b.request_count]
    ELSE b

\* acquire_token(timeout=0) on a limiter whose fields are b: the token count
\* it finds after the refill, what it returns and the fields it leaves; with
\* no token the timeout is over at once, time.time() - start_time >= 0
Acquired(b) ==
    LET r == Refilled(b) IN
    IF r.tokens > 0
    THEN [seen |-> r.tokens, ok |-> TRUE,
          bucket |-> [r EXCEPT !.tokens = @ - 1, !.request_count = @ + 1]]
    ELSE [seen |-> r.tokens, ok |-> FALSE, bucket |-> r]

\* get_wait_time() after its refill, on a limiter whose fields are b
WaitTimeOf(b) ==
    IF b.tokens > 0 THEN 0
    ELSE IF config.window_size - (now - b.last_refill) <= 0 THEN 0
    ELSE Max(0, TicksPerSecond \div config.requests_per_second)

\* the fields of the first limiter become b
Store(b) ==
    /\ tokens' = b.tokens
    /\ last_refill' = b.last_refill
    /\ window_start' = b.window_start
    /\ request_count' = b.request_count
    /\ refill_tokens' = IF b.last_refill # last_refill THEN Refilled(Bucket).tokens
                        ELSE refill_tokens
    /\ granted' = IF b.last_refill # last_refill THEN b.request_count - Refilled(Bucket).request_count
                  ELSE granted + (b.request_count - request_count)

\* a call that has returned: what it was, when it was made, what it gave
\* back and, for acquire_token, the token count it found
Called(op, value, seen) ==
    [IdleFrame EXCEPT !.op = op, !.pc = "done", !.start_time = now,
                      !.ret = value, !.l_tmp = seen]

\* acquire_token(timeout=0) on both limiters
AcquireOnBoth(t) ==
    /\ t \in DOMAIN th
    /\ th[t].pc \in {"idle", "done"}
    /\ LET a == Acquired(Bucket)
           b == Acquired(TwinBucket)
       IN /\ Store(a.bucket)
          /\ th' = [th EXCEPT ![t] = Called("acquire_token", ReturnBool(a.ok),
                                             a.seen)]
          /\ twin' = [tokens |-> b.bucket.tokens,
                      last_refill |-> b.bucket.last_refill,
                      window_start |-> b.bucket.window_start,
                      request_count |-> b.bucket.request_count,
                      acquired |-> b.ok, seen |-> b.seen]
    /\ UNCHANGED <<config, now, retry_config, tm_vars, wh_vars, bt_vars,
                   cl_vars, io>>

\* get_wait_time() on both limiters
GetWaitTimeOnBoth(t) ==
    /\ t \in DOMAIN th
    /\ th[t].pc \in {"idle", "done"}
    /\ LET a == Refilled(Bucket)
           b == Refilled(TwinBucket)
       IN /\ Store(a)
          /\ th' = [th EXCEPT ![t] = Called("get_wait_time",
                                             ReturnFloat(WaitTimeOf(a)), 0)]
          /\ twin' = [twin EXCEPT !.tokens = b.tokens,
                                  !.last_refill = b.last_refill,
                                  !.window_start = b.window_start,
                                  !.request_count = b.request_count]
    /\ UNCHANGED <<config, now, retry_config, tm_vars, wh_vars, bt_vars,
                   cl_vars, io>>

\* get_stats() on the first limiter: self._refill_tokens(), the dict, and
\* "wait_time": self.get_wait_time(), whose refill finds nothing to do
GetStatsOnFirst(t) ==
    /\ t \in DOMAIN th
    /\ th[t].pc \in {"idle", "done"}
    /\ LET a == Refilled(Bucket) IN
       /\ Store(a)
       /\ th' = [th EXCEPT ![t] =
                    [Called("get_stats", ReturnFloat(WaitTimeOf(a)), 0)
                        EXCEPT !.stats = <<a.tokens, a.request_count>>]]
    /\ UNCHANGED <<config, now, retry_config, tm_vars, wh_vars, ext_vars>>

TickObserved == TickUpTo(MaxTimeObserved)

\* RateLimiter.__init__, twice
InitObserved ==
    /\ config \in ValidRateLimitConfigs
    /\ tokens = config.burst_limit
    /\ last_refill = 0
    /\ window_start = 0
    /\ now = 0
    /\ request_count = 0
    /\ refill_tokens = config.burst_limit
    /\ granted = 0
    /\ th = [t \in {"t1"} |-> IdleFrame]
    /\ retry_config = DefaultRetryConfig
    /\ twin = [tokens |-> config.burst_limit, last_refill |-> 0,
               window_start |-> 0, request_count |-> 0, acquired |-> FALSE,
               seen |-> 0]
    /\ NoTokenManager
    /\ NoWebhookHandler
    /\ NoBatchRequestManager
    /\ NoClient

NextObserved ==
    \/ TickObserved
    \/ \E t \in Threads : AcquireOnBoth(t)
    \/ \E t \in Threads : GetWaitTimeOnBoth(t)
    \/ \E t \in Threads : GetStatsOnFirst(t)

SpecObserved == InitObserved /\ [][NextObserved]_vars

----------------------------------------------------------------------------
(* Two threads on one RateLimiter.  The class holds no lock: the threads'
   statements interleave at every read and write of the bucket. *)

ConcurrentConfigs ==
    { c \in ValidRateLimitConfigs : c.burst_limit <= 2 /\ c.window_size = 5 }

ConcurrentTimeouts == {NoTimeout, 0}

InitConcurrent ==
    /\ config \in ConcurrentConfigs
    /\ tokens = config.burst_limit
    /\ last_refill = 0
    /\ window_start = 0
    /\ now = 0
    /\ request_count = 0
    /\ refill_tokens = config.burst_limit
    /\ granted = 0
    /\ th = [t \in Threads |-> IdleFrame]
    /\ retry_config = DefaultRetryConfig
    /\ NoTokenManager
    /\ NoWebhookHandler
    /\ NoBatchRequestManager
    /\ NoClient
    /\ NoTwin

NextConcurrent ==
    \/ TickConcurrent
    \/ \E t \in Threads, timeout \in ConcurrentTimeouts : AcquireToken(t, timeout)
    \/ RefillStep
    \/ AcquireStep

SpecConcurrent == InitConcurrent /\ [][NextConcurrent]_vars

----------------------------------------------------------------------------
(* Claims *)

\* the frames of the threads inside or back from method `op`
In(op) == { t \in DOMAIN th : th[t].op = op }
Back(op) == { t \in In(op) : th[t].pc = "done" }

\* the errors the design calls retryable: transient transport errors, and
\* errors that carry a status code of retryable_errors
TransientTransport == {"ConnectionError", "TimeoutError", "OSError"}
Retryable(e) ==
    \/ e \in TransientTransport
    \/ StatusOf(e) \in retry_config.retryable_errors

AllCalls(log, P(_)) == \A i \in 1..Len(Calls(log)) : P(Calls(log)[i].out)

(* C1: in single-threaded use the token count stays within 0..burst_limit
   in every reachable state, whatever the configuration and the sequence of
   acquire_token, get_wait_time and get_stats calls and elapsed times. *)
C1_TokensWithinBurst ==
    /\ 0 <= tokens
    /\ tokens <= config.burst_limit

\* a refill whose sum exceeds burst_limit is being capped, after the bucket
\* had been emptied by acquire_token
C1_Witness ==
    /\ th["t1"].pc = "refill_write"
    /\ tokens = 0
    /\ tokens + NewTokens(th["t1"].l_passed) > config.burst_limit
    /\ th["t1"].l_tmp = config.burst_limit

(* C2: with two or more threads in acquire_token, the token count never
   becomes negative and the calls that returned True since a refill never
   outnumber the tokens that refill left in the bucket. *)
C2_NoOverAdmission ==
    /\ tokens >= 0
    /\ granted <= refill_tokens

(* C3: when every call of the work function fails with a retryable error,
   execute_with_retry calls it exactly max_retries + 1 times and then raises
   the exception of the last call, for every max_retries >= 0. *)
C3_ExhaustedAfterMaxRetriesPlusOne ==
    \A t \in In("execute_with_retry") :
        AllCalls(th[t].log, Retryable) =>
            /\ Len(Calls(th[t].log)) <= retry_config.max_retries + 1
            /\ th[t].pc = "done" =>
                  LET n == Len(Calls(th[t].log)) IN
                  /\ n = retry_config.max_retries + 1
                  /\ th[t].ret = Raise(Calls(th[t].log)[n].out, n)

\* three failing calls with two different retryable errors, max_retries = 2
C3_Witness ==
    \E t \in Back("execute_with_retry") :
        /\ retry_config.max_retries = 2
        /\ AllCalls(th[t].log, Retryable)
        /\ Len(Calls(th[t].log)) = 3
        /\ Calls(th[t].log)[1].out = "HttpError429"
        /\ Calls(th[t].log)[3].out = "ConnectionError"
        /\ th[t].ret.kind = "raise"

(* C4: an error that is neither a transient transport error nor carries a
   retryable status code makes should_retry return False, and
   execute_with_retry raises it after the first call, with no delay and no
   further call. *)
C4_NonRetryablePropagatesAtOnce ==
    \A t \in In("execute_with_retry") :
        LET log == th[t].log
            e == log[1].out
        IN (Len(log) >= 1 /\ e # "ok" /\ ~Retryable(e)) =>
              /\ ~ShouldRetry(e, NoStatus)
              /\ Len(log) = 1
              /\ th[t].pc = "done" => th[t].ret = Raise(e, 1)

(* C5: a call of APIRateLimiter.execute consumes exactly one rate-limit
   token, taken before the first attempt of the work, however many attempts
   the retry handler makes and whether the call returns or raises. *)
C5_OneTokenPerExecute ==
    \A t \in In("execute") :
        LET log == th[t].log IN
        /\ TokensTaken(log) <= 1
        /\ Len(Calls(log)) >= 1 => log[1] = TokenEvent
        /\ th[t].pc = "done" => TokensTaken(log) = 1

\* an execute that had to wait for a refill, retried twice and then raised
C5_Witness ==
    \E t \in Back("execute") :
        /\ Len(Calls(th[t].log)) = 3
        /\ th[t].ret.kind = "raise"
        /\ TokensTaken(th[t].log) = 1
        /\ last_refill > 0
        /\ tokens = 0

\* the last call on the token store was op, for a user whose file was in
\* the given state when the call began
Did(op, state) == last_op.op = op /\ last_op.file = state

\* the record has an expires_at that is a date at or before the time
ExpiredBy(record, time) ==
    record.expires_at.s = "iso" /\ record.expires_at.n <= time

\* every value of the record is one JSON has: a str, None, a list, a dict
JsonNative(record) ==
    \A k \in TokenKeys : record[k].t \in {"str", "None", "list", "dict"}

\* C6: get_valid_access_token returns None, and so never the stored access
\* token, whenever the record stored for the user has an expires_at at or
\* before the current time, with auto_refresh on and off.
C6_NoStaleAccessToken ==
    (Did("get_valid_access_token", "ok") /\ ExpiredBy(last_op.dict, last_op.at))
        => (last_op.ret = "None" /\ last_op.token = PyNone)

\* C6 happens: a record with an access token and a refresh token is read at
\* the very time of its expiry, refresh disabled
C6_Witness ==
    /\ Did("get_valid_access_token", "ok")
    /\ last_op.dict.expires_at = IsoFormat(PyDatetime(last_op.at, "naive"))
    /\ Truthy(last_op.dict.access_token)
    /\ Truthy(last_op.dict.refresh_token)
    /\ ~auto_refresh
    /\ last_op.ret = "None"

\* C7: load_tokens of a user whose file exists but is corrupt, tampered with
\* or undecryptable gives an outcome other than the None of a user with no
\* file.
C7_CorruptIsNotAbsent ==
    Did("load_tokens", "corrupt") => last_op.ret # "None"

\* C8 as stated: a load_tokens(u) while the record of the last successful
\* save_tokens(u, r) is still the stored one returns a dict equal to r, for
\* every r.
C8_RoundTrip ==
    (last_op.op = "load_tokens" /\ saved[last_op.user].valid)
        => (last_op.ret = "dict" /\ last_op.dict = saved[last_op.user].dict)

\* C8 amended: the same for every record r made of JSON's own values.
C8_RoundTripJsonNative ==
    (/\ last_op.op = "load_tokens"
     /\ saved[last_op.user].valid
     /\ JsonNative(saved[last_op.user].dict))
        => (last_op.ret = "dict" /\ last_op.dict = saved[last_op.user].dict)

\* C8 happens: a record holding a list is loaded back from the encrypted
\* backend while the other user has a file too
C8_Witness ==
    /\ last_op.op = "load_tokens"
    /\ backend = "encrypted"
    /\ saved[last_op.user].valid
    /\ saved[last_op.user].dict.additional_data = PyList("s")
    /\ last_op.dict = saved[last_op.user].dict
    /\ \A u \in Users : files[u].fmt # "none"

\* the outcomes of handle_webhook the specification names, with their codes
Outcomes ==
    { [error |-> "", status |-> IntStatus(200)],
      [error |-> "Invalid signature", status |-> IntStatus(401)],
      [error |-> "Failed to parse webhook", status |-> IntStatus(400)] }

\* the handlers a finished dispatch has to have invoked, in order
Expected(T) ==
    IF Len(event_handlers[T]) > 0
    THEN [i \in 1..Len(event_handlers[T]) |->
              [handler |-> event_handlers[T][i], as |-> "handler"]]
    ELSE IF fallback_handler # "None"
    THEN <<[handler |-> fallback_handler, as |-> "fallback"]>>
    ELSE <<>>

Invoked ==
    [i \in 1..Len(wh.invoked) |->
         [handler |-> wh.invoked[i].handler, as |-> wh.invoked[i].as]]

\* C9: every finished handle_webhook call returned one of the four outcomes:
\* success with status 200, invalid signature with 401, parse failure with
\* 400, or an internal error with 500.
C9_FourOutcomes ==
    wh.pc = "done" =>
        \/ [error |-> wh.ret.error, status |-> wh.ret.status] \in Outcomes
        \/ wh.ret.error # "" /\ wh.ret.status = IntStatus(500)

\* C10: when handle_webhook has finished with an event of a type T, it has
\* invoked the handlers registered for T, each once and in registration
\* order, and nothing else; with none registered for T it has invoked the
\* fallback handler once if one is set, and nothing otherwise.
C10_DispatchToRegistered ==
    (wh.pc = "done" /\ wh.parsed /\ wh.event_type \in WebhookEventType)
        => Invoked = Expected(wh.event_type)

\* C10 happens: two handlers for the event's type, the first of them
\* raising, with a handler for another type and a fallback handler set
C10_Witness ==
    /\ wh.pc = "done"
    /\ wh.event_type = "drive.file.created"
    /\ event_handlers["drive.file.created"] = <<"h2", "h1">>
    /\ event_handlers["calendar.event.created"] = <<"h1">>
    /\ fallback_handler = "fb"
    /\ Len(wh.invoked) = 2

\* a handler registered for the type of the event of the call raises
SomeHandlerRaises ==
    /\ wh.parsed
    /\ wh.event_type \in WebhookEventType
    /\ \E i \in 1..Len(event_handlers[wh.event_type]) :
           Behaviour(event_handlers[wh.event_type][i]) = "raises"

\* C11: when a handler registered for the event's type raises, the finished
\* handle_webhook call has still invoked every handler registered for the
\* type, and it has returned the success response.
C11_RaisingHandlerIsContained ==
    (wh.pc = "done" /\ SomeHandlerRaises)
        => /\ Len(wh.invoked) = Len(event_handlers[wh.event_type])
           /\ \A i \in 1..Len(wh.invoked) :
                  /\ wh.invoked[i].handler = event_handlers[wh.event_type][i]
                  /\ wh.invoked[i].as = "handler"
           /\ wh.ret = SuccessResponse

\* C11 happens: the first of two handlers raised, the second was invoked
\* after it and returned, and the call gave the success response
C11_Witness ==
    /\ wh.pc = "done"
    /\ wh.event_type = "calendar.event.created"
    /\ Len(wh.invoked) = 2
    /\ wh.invoked[1].outcome = "raises"
    /\ wh.invoked[2].handler = "h1"
    /\ wh.invoked[2].outcome = "returns"
    /\ wh.ret = SuccessResponse

\* C12: with a verification token configured, verify_webhook returns True
\* exactly when the signature is the hexdigest of the HMAC-SHA256 of the body
\* of the call under the token, and False for every other body or signature.
C12_VerifyExactly ==
    (wh.op = "verify_webhook" /\ wh.pc = "done" /\ verification_token # "")
        => /\ wh.verified \in {"True", "False"}
           /\ wh.verified = "True" <=>
                  wh.headers.sig = Signature(verification_token, wh.body, "hexdigest")

\* C12 happens: the signature of another body under the configured token
\* was refused
C12_Witness ==
    /\ wh.op = "verify_webhook"
    /\ wh.pc = "done"
    /\ verification_token = "secret"
    /\ wh.body = "b1"
    /\ wh.headers.sig = Signature("secret", "b2", "hexdigest")
    /\ wh.verified = "False"

\* min(burst_limit - tokens, dt * requests_per_second) in tenths of a token,
\* dt in ticks
RefillDue(dt) ==
    Min((config.burst_limit - tokens) * TicksPerSecond,
        dt * config.requests_per_second)

\* C13: a _refill_tokens call that finds an idle time dt since last_refill
\* adds exactly min(burst_limit - tokens, dt * requests_per_second) tokens:
\* the value it is about to store when it refills, and nothing only when
\* that amount is nothing when it leaves the bucket as it is.
C13_RefillAddsExactly ==
    /\ th["t1"].pc = "refill_write" =>
           (th["t1"].l_tmp - tokens) * TicksPerSecond = RefillDue(th["t1"].l_passed)
    /\ th["t1"].pc \in {"check", "wait_check", "stats_read"} =>
           0 = RefillDue(th["t1"].l_passed)

\* less than window_size has elapsed since the limiter was constructed
Fresh == now < config.window_size

\* C14: while less than window_size has elapsed since construction, the
\* first burst_limit acquire_token calls get a token without waiting (a call
\* reaches the timeout test only after burst_limit were granted), and then
\* acquire_token(timeout=0) returns False without sleeping or raising, with
\* tokens still 0 and request_count still burst_limit.
C14_BurstThenRefusal ==
    Fresh =>
        /\ tokens = config.burst_limit - granted
        /\ request_count = granted
        /\ \A t \in DOMAIN th :
            /\ th[t].pc \in {"timeout", "sleep"} => granted = config.burst_limit
            /\ th[t].pc = "sleep" => th[t].timeout # 0
            /\ (th[t].op = "acquire_token" /\ th[t].pc = "done") =>
                   /\ th[t].ret.kind = "bool"
                   /\ th[t].ret = ReturnBool(FALSE) =>
                          /\ granted = config.burst_limit
                          /\ tokens = 0
                          /\ request_count = config.burst_limit

\* C14 happens: three tokens of a burst of three were granted and a call
\* with timeout 0 was refused, all at the time of construction
C14_Witness ==
    /\ now = 0
    /\ config.burst_limit = 3
    /\ granted = 3
    /\ th["t1"].op = "acquire_token"
    /\ th["t1"].pc = "done"
    /\ th["t1"].ret = ReturnBool(FALSE)
    /\ tokens = 0
    /\ request_count = 3

\* the log of a call whose first k calls of the work function failed with
\* retryable errors and whose call k + 1 succeeded
FailedThenSucceeded(log, k) ==
    /\ Len(Calls(log)) = k + 1
    /\ \A i \in 1..k : Retryable(Calls(log)[i].out)
    /\ Calls(log)[k + 1].out = "ok"

\* C15: when the work function fails with retryable errors on its first k
\* calls, k <= max_retries, and succeeds on call k + 1, execute_with_retry
\* returns the value of call k + 1, and its log is k times a failed call
\* followed by one delay, then the successful call: k + 1 calls, k delays,
\* no delay first or last.
C15_SucceedsAfterKDelays ==
    \A t \in Back("execute_with_retry") :
        \A k \in 0..retry_config.max_retries :
            FailedThenSucceeded(th[t].log, k) =>
                /\ th[t].ret = ReturnValue(k + 1)
                /\ Len(th[t].log) = 2 * k + 1
                /\ Len(Sleeps(th[t].log)) = k
                /\ \A i \in 1..k :
                       /\ th[t].log[2 * i - 1].ev = "call"
                       /\ th[t].log[2 * i].ev = "sleep"
                /\ th[t].log[2 * k + 1].ev = "call"

\* C15 happens: two retryable failures, then a success on the third call
C15_Witness ==
    \E t \in Back("execute_with_retry") :
        /\ retry_config.max_retries = 2
        /\ FailedThenSucceeded(th[t].log, 2)
        /\ Calls(th[t].log)[1].out = "ConnectionError"
        /\ Calls(th[t].log)[2].out = "HttpError429"
        /\ th[t].ret = ReturnValue(3)

\* the delay the design gives the sleep before attempt n, without jitter
DelayBefore(n) ==
    LET base == retry_config.base_delay
        grown == CASE retry_config.strategy = "exponential_backoff" ->
                        base * (2 ^ (n - 2))
                   [] retry_config.strategy = "linear_backoff" -> base * (n - 1)
                   [] retry_config.strategy = "constant_backoff" -> base
    IN IF grown < retry_config.max_delay THEN grown ELSE retry_config.max_delay

\* C16: with jitter disabled and the exponential, linear or constant
\* strategy, the i-th delay execute_with_retry sleeps, the one before attempt
\* n = i + 1, is exactly min(max_delay, base_delay * 2^(n-2)), min(max_delay,
\* base_delay * (n-1)) or min(max_delay, base_delay).
C16_DelayBeforeAttempt ==
    (/\ ~retry_config.jitter
     /\ retry_config.strategy \in {"exponential_backoff", "linear_backoff",
                                   "constant_backoff"})
        => \A t \in In("execute_with_retry") :
               \A i \in 1..Len(Sleeps(th[t].log)) :
                   /\ i + 1 <= retry_config.max_retries + 1
                   /\ Sleeps(th[t].log)[i].delay = DelayBefore(i + 1)

\* C16 happens: three delays of 1, 2 and 4 seconds under the exponential
\* strategy before attempts 2, 3 and 4
C16_Witness ==
    \E t \in In("execute_with_retry") :
        /\ ~retry_config.jitter
        /\ retry_config.strategy = "exponential_backoff"
        /\ Len(Sleeps(th[t].log)) = 3
        /\ Sleeps(th[t].log)[1].delay = 10
        /\ Sleeps(th[t].log)[2].delay = 20
        /\ Sleeps(th[t].log)[3].delay = 40

\* the request ids of the batch are pairwise distinct
DistinctIds ==
    \A i, j \in 1..Len(requests) :
        requests[i].request_id = requests[j].request_id => i = j

\* C17: when the payload of a non-empty batch with distinct request ids has
\* been answered by the echo server and the answer parsed, there is one
\* response for each sub-request, in order, with the request_id and the body
\* of that sub-request.
C17_EchoRoundTrip ==
    (batch.op = "parse_batch_response" /\ Len(requests) > 0 /\ DistinctIds)
        => /\ Len(batch.responses) = Len(requests)
           /\ \A i \in 1..Len(requests) :
                  /\ batch.responses[i].request_id = requests[i].request_id
                  /\ batch.responses[i].body = requests[i].body

\* C18: create_batch_payload raises ValueError exactly when the batch holds
\* no sub-request, and otherwise returns a payload with one part for each
\* sub-request; in both cases the batch is what it was before the call.
C18_EmptyBatchFails ==
    batch.op = "create_batch_payload" =>
        /\ requests = batch.before
        /\ IF Len(requests) = 0
           THEN batch.raised = "ValueError" /\ batch.payload = <<>>
           ELSE batch.raised = "" /\ Len(batch.payload) = Len(requests)

\* C18 happens: the call failed on a batch that is empty because its
\* max_batch_size of 0 rejects every add
C18_Witness ==
    /\ batch.op = "create_batch_payload"
    /\ batch.raised = "ValueError"
    /\ max_batch_size = 0
    /\ requests = <<>>

\* the names of the loaded services
LoadedNames(svcs) == {svcs[i].name : i \in 1..Len(svcs)}

\* the last call on the client was an accessor that returned
AccessorReturned ==
    client.op \in {"accessor", "accessor_async"} /\ client.raised = ""

\* C19 as the claim words it: every accessor called adds its service to the
\* loaded set, so the number of loaded services is the number of distinct
\* accessors called since the construction or the last close.
C19_EveryCallLoads ==
    /\ client.op = "none" => services = <<>>
    /\ client.op \in {"accessor", "accessor_async"} =>
           LoadedNames(services) = LoadedNames(client.before) \cup {client.name}
    /\ Cardinality(LoadedNames(services)) = Cardinality(client.called)

\* C19: the client has no loaded services after construction; an accessor
\* that returns leaves loaded exactly the services loaded before and its own,
\* and returns the instance stored for it, which for a service loaded before
\* is the instance it already had; the number of loaded services is the
\* number of distinct accessors that have returned since the construction or
\* the last close.
C19_LazyCachedServices ==
    /\ client.op \in {"none", "GSpace"} => services = <<>>
    /\ AccessorReturned =>
           /\ LoadedNames(services) = LoadedNames(client.before) \cup {client.name}
           /\ client.instance = InstanceOf(services, client.name)
           /\ client.name \in LoadedNames(client.before) =>
                  /\ services = client.before
                  /\ instances = client.made
    /\ (client.op \in {"accessor", "accessor_async"} /\ client.raised # "") =>
           /\ services = client.before
           /\ client.instance = NoInstance
    /\ Len(services) = Cardinality(LoadedNames(services))
    /\ Cardinality(LoadedNames(services)) = Cardinality(client.accessed)

\* C19 happens: with calendar and gmail loaded, calendar() was called again
\* and returned the first instance
C19_Witness ==
    /\ AccessorReturned
    /\ client.name = "calendar"
    /\ Keys(client.before) = <<"calendar", "gmail">>
    /\ Keys(services) = <<"calendar", "gmail">>
    /\ client.instance = 1
    /\ instances = 2

\* C20: after close or close_async the client has no loaded services and
\* its auth manager is the one it had; get_available_services then returns
\* the empty list until an accessor returns; and an accessor called for a
\* service that is not loaded, as every service is after a close, returns an
\* instance constructed by this call.
C20_CloseClears ==
    /\ client.op \in {"close", "close_async"} =>
           /\ services = <<>>
           /\ auth = client.auth
    /\ client.op = "get_available_services" =>
           /\ client.listed = Keys(services)
           /\ client.accessed = {} => client.listed = <<>>
    /\ (AccessorReturned /\ client.name \notin LoadedNames(client.before)) =>
           /\ client.instance > client.made
           /\ \A j \in 1..Len(client.before) :
                  client.before[j].instance # client.instance

\* C20 happens: two services were loaded and closed away (no service is
\* loaded though two instances were made), and the accessor then called
\* returned a third instance
C20_Witness ==
    /\ AccessorReturned
    /\ client.before = <<>>
    /\ client.made = 2
    /\ client.called = {client.name}
    /\ client.instance = 3
    /\ Keys(services) = <<client.name>>

\* the last call constructed a client, directly or through a classmethod
Constructing == client.op \in {"GSpace", "from_oauth", "from_service_account"}

\* the classmethod op returned a client whose auth manager was built with
\* the credentials and scopes given and with auth_type, and that has no
\* loaded service, unless AuthManager itself could not load the credentials
Constructed(op, auth_type) ==
    client.op = op =>
        \/ client.raised = "FileNotFoundError"
        \/ /\ client.raised = ""
           /\ auth = AuthManager(client.credentials, client.scopes, auth_type)
           /\ services = <<>>

\* C21: from_oauth and from_service_account return a client whose auth
\* manager was built with the given scopes and the auth type "OAuth2" resp.
\* "service_account" and that has no loaded service; a construction with
\* another auth type raises ValueError before any AuthManager is created.
C21_ClassmethodsConstruct ==
    /\ Constructed("from_oauth", "OAuth2")
    /\ Constructed("from_service_account", "service_account")
    /\ (Constructing /\ client.raised = "ValueError") =>
           /\ client.managers = 0
           /\ auth = NoAuth

\* the X-Goog-Signature header of the request is the digest of its body
\* under the configured token
SignatureVerifies ==
    /\ wh.headers.has
    /\ wh.headers.sig = HmacSha256(verification_token, wh.body)

\* C22: with a verification token configured, a handle_webhook call whose
\* X-Goog-Signature header is wrong, missing or empty invokes no typed and
\* no fallback handler and returns the invalid-signature response with
\* status 401; a call that invoked a handler without verifying a signature
\* ran with no token configured.
C22_HandlersOnlyForVerified ==
    /\ (/\ verification_token # ""
        /\ wh.op = "handle_webhook"
        /\ wh.headers.dict
        /\ ~SignatureVerifies)
           => /\ wh.invoked = <<>>
              /\ wh.pc = "done" =>
                     wh.ret = ErrorResponse("Invalid signature", 401)
    /\ (wh.op = "handle_webhook" /\ wh.invoked # <<>> /\ wh.verified = "None")
           => verification_token = ""

\* C23: the loop of handle_webhook runs over the handlers that were
\* registered for the type of the event when the dispatch started: whatever
\* is registered or cleared meanwhile, by another thread or by a handler, the
\* handlers invoked are those of the snapshot in their order, so a dispatch
\* over n handlers ends after n invocations even when a handler registers
\* further handlers for the type.
C23_DispatchOnSnapshot ==
    (wh.op = "handle_webhook" /\ wh.pc \in {"handlers", "done"}
                              /\ Len(wh.snapshot) > 0)
        => /\ Len(wh.invoked) <= Len(wh.snapshot)
           /\ \A i \in 1..Len(wh.invoked) :
                  i <= Len(wh.snapshot) => wh.invoked[i].handler = wh.snapshot[i]
           /\ wh.pc = "done" => Len(wh.invoked) = Len(wh.snapshot)

\* the caller's acquire_token() found the bucket empty after its refill
WaitsOnEmpty ==
    /\ th["t1"].op = "acquire_token"
    /\ th["t1"].timeout = NoTimeout
    /\ th["t1"].pc = "timeout"
    /\ tokens = 0

\* C24: for every valid configuration, an acquire_token(timeout=None), and
\* so a wait_for_token, that finds the bucket empty eventually returns True
\* as time passes, no other caller taking tokens.
C24_WaitEnds ==
    WaitsOnEmpty ~> (th["t1"].pc = "done" /\ th["t1"].ret = ReturnBool(TRUE))

\* no save_tokens call is under way
NoSaveUnderWay == \A t \in Threads : io[t].pc # "opened"

\* C25: a load_tokens(u) that started over a stored record returns a record,
\* the old one or the one a concurrent save_tokens(u, r) writes, never None;
\* and once the save_tokens calls for u have returned, the file of u holds
\* exactly one of their records, whole.
C25_LoadSeesOldOrNew ==
    /\ \A t \in Threads :
           (io[t].op = "load_tokens" /\ io[t].pc = "done" /\ io[t].before = "ok")
               => /\ io[t].ret = "dict"
                  /\ io[t].got \in StoreRecords
    /\ (NoSaveUnderWay /\ \E t \in Threads : io[t].op = "save_tokens")
           => /\ FileState("u1") = "ok"
              /\ BackendLoad("u1").dict \in StoreRecords


\* the execute_async call of task t is in the sleep of its wait for a token
WaitsForToken(t) ==
    /\ th[t].op = "execute_async"
    /\ th[t].pc \in {"sleep", "wait_sleep"}
    /\ tokens = 0

\* the execute_async call of task t is in the delay before its next attempt
InRetryDelay(t) ==
    /\ th[t].op = "execute_async"
    /\ th[t].pc = "retry_sleep"

\* C26: while an execute_async call waits for a token on an empty bucket,
\* another task of the same event loop that is ready to go on can go on, as
\* it can while the call is in the delay between two attempts
C26_WaitSuspendsOnlyCaller ==
    \A t \in Threads, o \in Threads :
        (t # o /\ Ready(o) /\ (WaitsForToken(t) \/ InRetryDelay(t)))
            => ENABLED Resume(o)


\* the last call was an acquire_token(timeout=0), made on both limiters
AcquireReturned ==
    th["t1"].op = "acquire_token" /\ th["t1"].pc = "done"

\* C27: get_stats calls between the acquire_token calls change neither which
\* of them succeed nor the token count they find: each gives what it gives
\* on the limiter that got the same calls without the get_stats calls
C27_GetStatsReadOnly ==
    AcquireReturned =>
        /\ th["t1"].ret = ReturnBool(twin.acquired)
        /\ th["t1"].l_tmp = twin.seen


\* the last call was a get_wait_time(), and no call was made since
WaitTimeReturned ==
    th["t1"].op = "get_wait_time" /\ th["t1"].pc = "done"

\* C28: get_wait_time returns no negative value, returns 0 when a token is
\* available, and when it returned w > 0, an acquire_token(timeout=0) made w
\* later, with no call in between, gets a token
C28_WaitTimeSuffices ==
    WaitTimeReturned =>
        LET w == th["t1"].ret.val IN
        /\ w >= 0
        /\ (now = th["t1"].start_time /\ tokens > 0) => w = 0
        /\ (w > 0 /\ now = th["t1"].start_time + w) => Acquired(Bucket).ok


\* the last call was get_valid_access_token on a stored record that holds an
\* access token, a refresh token and an expiry that has passed, with
\* auto_refresh enabled
RefreshDue ==
    /\ last_op.op = "get_valid_access_token"
    /\ last_op.file = "ok"
    /\ auto_refresh
    /\ Truthy(last_op.dict.access_token)
    /\ Truthy(last_op.dict.refresh_token)
    /\ Truthy(last_op.dict.expires_at)
    /\ FromIsoFormat(last_op.dict.expires_at).ok
    /\ FromIsoFormat(last_op.dict.expires_at).v.z = "naive"
    /\ ExpiredAt(last_op.at, FromIsoFormat(last_op.dict.expires_at).v.n)

\* C29: get_valid_access_token on an expired record with a refresh token and
\* auto_refresh enabled returns a new access token, and the record a
\* following load_tokens returns holds it
C29_RefreshPersists ==
    RefreshDue =>
        /\ last_op.ret = "token"
        /\ last_op.token # last_op.dict.access_token
        /\ BackendLoad(last_op.user).ret = "dict"
        /\ BackendLoad(last_op.user).dict.access_token = last_op.token


\* the stored record of u holds an access token that has not expired: it
\* has no expiry, or its expiry is in the future
Unexpired(u) ==
    LET r == BackendLoad(u) IN
    /\ r.ret = "dict"
    /\ Truthy(r.dict.access_token)
    /\ \/ ~Truthy(r.dict.expires_at)
       \/ /\ FromIsoFormat(r.dict.expires_at).ok
          /\ ~ExpiredAt(now, FromIsoFormat(r.dict.expires_at).v.n)

\* the stored record of u holds a refresh token and auto_refresh is enabled
Refreshable(u) ==
    LET r == BackendLoad(u) IN
    /\ r.ret = "dict"
    /\ Truthy(r.dict.refresh_token)
    /\ auto_refresh

\* the step is a call of cleanup_expired_tokens
CleanupStep ==
    /\ last_op'.op = "cleanup_expired_tokens"
    /\ last_op' # last_op

\* C30: cleanup_expired_tokens deletes the record of a user exactly when its
\* access token is no longer valid and cannot be refreshed; the records with
\* an unexpired or non-expiring access token, and the expired ones with a
\* refresh token under auto_refresh, stay as they are
C30_CleanupOnlyUnusable ==
    [][CleanupStep =>
          \A u \in Users :
              IF files[u].fmt # "none" /\ ~Unexpired(u) /\ ~Refreshable(u)
              THEN files'[u] = NoFile
              ELSE files'[u] = files[u]]_vars


\* the users whose record the step removes from the backend
Removed == { u \in Users : files[u].fmt # "none" /\ files'[u].fmt = "none" }

\* C31: the integer cleanup_expired_tokens returns is the number of records
\* the call removed from the backend, the decrease of the size of
\* list_users(): a user whose delete failed is not counted
C31_CountIsRemoved ==
    [][CleanupStep => last_op'.n = Cardinality(Removed)]_vars


\* the outcomes of the work calls of a log, in order
WorkOutcomes(log) == [i \in 1..Len(Calls(log)) |-> Calls(log)[i].out]

\* a is the beginning of b
StartsWith(b, a) == Len(a) <= Len(b) /\ SubSeq(b, 1, Len(a)) = a

\* the plain call of t1 and the task of t2 have both ended, on sequences of
\* work outcomes of which one is the beginning of the other
SameWorkOutcomes ==
    /\ th["t1"].op = "execute_with_retry" /\ th["t1"].pc = "done"
    /\ th["t2"].op = "execute_with_retry_async" /\ th["t2"].pc = "done"
    /\ \/ StartsWith(WorkOutcomes(th["t1"].log), WorkOutcomes(th["t2"].log))
       \/ StartsWith(WorkOutcomes(th["t2"].log), WorkOutcomes(th["t1"].log))

Kept(parts) ==
    SelectSeq([i \in 1..Len(parts) |-> i], LAMBDA i : parts[i].wellformed)

\* C33: parse_batch_response gives each part with an X-Request-ID header
\* that header's value as request_id, and each part without it the id made
\* from the place of the part among the parts of the body, also after a
\* malformed part that was skipped
C33_IdByHeaderOrPosition ==
    (batch.op = "parse_batch_response" /\ batch.parts # <<>>) =>
        LET kept == Kept(batch.parts) IN
        /\ Len(batch.responses) = Len(kept)
        /\ \A k \in 1..Len(kept) :
              batch.responses[k].request_id =
                  IF batch.parts[kept[k]].xid # ""
                  THEN batch.parts[kept[k]].xid
                  ELSE SyntheticId(kept[k] - 1)


\* C34: after any sequence of add_request, add_*_request and clear_requests
\* calls the batch holds as many different request_ids as sub-requests
C34_RequestIdsUnique ==
    Cardinality({ requests[i].request_id : i \in 1..Len(requests) })
        = Len(requests)


\* the body handle_webhook was called with has an event_type that is not the
\* value of a member of WebhookEventType, and parse_webhook returned an event
ParsedUnknownType ==
    /\ wh.op = "handle_webhook"
    /\ wh.parsed
    /\ \E b \in Bodies : b.id = wh.body /\ b.event_type \notin WebhookEventType

\* C35: an object whose event_type is none of the fixed types parses to an
\* event whose type is the marker 'unrecognized', never None; handle_webhook
\* hands it to the fallback handler only and returns success
C35_UnknownTypeIsMarked ==
    ParsedUnknownType =>
        /\ wh.event_type = "unrecognized"
        /\ \A k \in 1..Len(wh.invoked) : wh.invoked[k].as = "fallback"
        /\ wh.pc = "done" => wh.ret = SuccessResponse


\* what the three readers of a batch return, against one another
CapacityHolds ==
    /\ 0 <= GetRequestCount
    /\ GetRequestCount <= max_batch_size
    /\ GetRemainingCapacity = max_batch_size - GetRequestCount
    /\ IsFull <=> GetRemainingCapacity = 0

\* add_request drops the request on a full batch and appends it otherwise
AddRequestStep ==
    \A r \in SubRequests :
        AddRequest(r) => requests' = IF IsFull THEN requests
                                              ELSE Append(requests, r)

C37_TokensPlusCountBounded ==
    tokens + request_count <= config.burst_limit


\* the calls that name one user, by the op they leave in last_op
UserOps == {"save_tokens", "backend.save_tokens", "load_tokens", "revoke_tokens"}
SaveOps == {"save_tokens", "backend.save_tokens"}

\* revoke_tokens(u) has just returned True: nothing is stored for u
RevokedIsGone ==
    (last_op.op = "revoke_tokens" /\ last_op.ret = "True") =>
        /\ BackendLoad(last_op.user).ret = "None"
        /\ ValidAccessToken(last_op.user) = PyNone
        /\ last_op.user \notin ListUsers

\* a user without a record gets one by a save for that user only; a revoke
\* for a user without a record returns True and leaves every file alone; a
\* save, load or revoke for one user leaves the files of the others alone
RevokeFrame ==
    \A u \in Users :
        /\ (files[u].fmt = "none" /\ files'[u].fmt # "none") =>
               (last_op'.op \in SaveOps /\ last_op'.user = u)
        /\ (files[u].fmt = "none" /\ last_op'.op = "revoke_tokens"
                                 /\ last_op'.user = u) =>
               (last_op'.ret = "True" /\ files' = files)
        /\ (last_op'.op \in UserOps /\ last_op'.user = u) =>
               \A v \in Users \ {u} :
                   /\ files'[v] = files[v]
                   /\ (v \in ListUsers') = (v \in ListUsers)

\* C38: after revoke_tokens(u) returned True, load_tokens(u) and
\* get_valid_access_token(u) return None and u is not listed until the next
\* save for u; revoking a user without a record returns True and changes
\* nothing; a save, load or revoke for u leaves the record and the listing
\* of every other user as they were
C38_RevokeFrame == []RevokedIsGone /\ [][RevokeFrame]_vars

\* revoke_tokens returned True for a user whose record was readable, while
\* the other user has a record
C38_Witness ==
    /\ last_op.op = "revoke_tokens"
    /\ last_op.ret = "True"
    /\ last_op.file = "ok"
    /\ \E v \in Users \ {last_op.user} : FileState(v) = "ok"

====
